---------------------------- MODULE Spec2Model ----------------------------
(***************************************************************************)
(* A model of the CHIP-8 emulator library: the instruction decoder         *)
(* (src/lib/instruction.rs) and the execution engine (src/lib/emulator.rs) *)
(* as driven by the frame loop of src/main.rs.                             *)
(***************************************************************************)
EXTENDS Integers, Sequences, FiniteSets, TLC

(***************************************************************************)
(* Program constants.                                                      *)
(***************************************************************************)
WIDTH == 64
HEIGHT == 32
FPS == 60
MEMORY_SIZE == 4096
PROGRAM_START_ADDRESS == 512
FONT_START_ADDRESS == 80

\* The values of a u8.
Byte == 0 .. 255

\* FONT.concat(): the sixteen five-byte glyphs 0..F, in order.
FONT ==
  << \hF0, \h90, \h90, \h90, \hF0,
     \h20, \h60, \h20, \h20, \h70,
     \hF0, \h10, \hF0, \h80, \hF0,
     \hF0, \h10, \hF0, \h10, \hF0,
     \h90, \h90, \hF0, \h10, \h10,
     \hF0, \h80, \hF0, \h10, \hF0,
     \hF0, \h80, \hF0, \h90, \hF0,
     \hF0, \h10, \h20, \h40, \h40,
     \hF0, \h90, \hF0, \h90, \hF0,
     \hF0, \h90, \hF0, \h10, \hF0,
     \hF0, \h90, \hF0, \h90, \h90,
     \hE0, \h90, \hE0, \h90, \hE0,
     \hF0, \h80, \h80, \h80, \hF0,
     \hE0, \h90, \h90, \h90, \hE0,
     \hF0, \h80, \hF0, \h80, \hF0,
     \hF0, \h80, \hF0, \h80, \h80 >>

(***************************************************************************)
(* Bitwise operators of the unsigned integer types, bit by bit.            *)
(***************************************************************************)
RECURSIVE BitAnd(_, _)
BitAnd(a, b) ==
  IF a = 0 \/ b = 0 THEN 0
  ELSE (a % 2) * (b % 2) + 2 * BitAnd(a \div 2, b \div 2)

RECURSIVE BitOr(_, _)
BitOr(a, b) ==
  IF a = 0 THEN b
  ELSE IF b = 0 THEN a
  ELSE (IF a % 2 = 1 \/ b % 2 = 1 THEN 1 ELSE 0) + 2 * BitOr(a \div 2, b \div 2)

RECURSIVE BitXor(_, _)
BitXor(a, b) ==
  IF a = 0 THEN b
  ELSE IF b = 0 THEN a
  ELSE ((a + b) % 2) + 2 * BitXor(a \div 2, b \div 2)

RECURSIVE Pow2(_)
Pow2(k) == IF k = 0 THEN 1 ELSE 2 * Pow2(k - 1)

\* v >> k
Shr(v, k) == v \div Pow2(k)

\* v << k in a u16 and in a u8: the bits shifted past the width are lost.
Shl16(v, k) == (v * Pow2(k)) % 65536
Shl8(v, k) == (v * Pow2(k)) % 256

\* u8::wrapping_add and u8::wrapping_sub
wrapping_add(a, b) == (a + b) % 256
wrapping_sub(a, b) == (a - b + 256) % 256

(***************************************************************************)
(* The instruction decoder (src/lib/instruction.rs).                       *)
(***************************************************************************)
\* extract_address without the mask of the opcode nibble.
extract_address_unmasked(instruction) ==
  BitOr(Shl16(instruction[1], 8), instruction[2])

\* first | second of ((instruction.0 & 0xF) as u16) << 8 and instruction.1
extract_address(instruction) ==
  BitOr(Shl16(BitAnd(instruction[1], \h0F), 8), instruction[2])

extract_registers(instruction) ==
  << BitAnd(instruction[1], \h0F), Shr(instruction[2], 4) >>

extract_second_nibble(byte) == BitAnd(byte, \h0F)

\* A value of enum Instruction: the variant and its fields in order (a
\* variant with fewer than three fields leaves the others 0).  Err is the
\* Err(EmulatorError::Instruction()) that parse returns instead.
Ins(op, a, b, c) == [op |-> op, a |-> a, b |-> b, c |-> c]
ErrInstruction == Ins("Err", 0, 0, 0)

\* The class 0 arm without the test of the first byte: 0XE0 and 0XEE decode
\* for every X.
parse_0_loose(instruction) ==
  CASE instruction[2] = \hE0 -> Ins("ClearScreen", 0, 0, 0)
    [] instruction[2] = \hEE -> Ins("Return", 0, 0, 0)
    [] OTHER -> ErrInstruction

\* The arms of parse with an inner match: classes 0, 8, E and F.
parse_0(instruction) ==
  IF instruction[1] # 0 THEN ErrInstruction
  ELSE CASE instruction[2] = \hE0 -> Ins("ClearScreen", 0, 0, 0)
         [] instruction[2] = \hEE -> Ins("Return", 0, 0, 0)
         [] OTHER -> ErrInstruction

parse_8(instruction) ==
  LET fourth_nibble == extract_second_nibble(instruction[2])
      xy == extract_registers(instruction)
      x == xy[1]
      y == xy[2]
  IN  CASE fourth_nibble = 0 -> Ins("SetRegisterToValueOfRegister", x, y, 0)
        [] fourth_nibble = 1 -> Ins("BinaryOR", x, y, 0)
        [] fourth_nibble = 2 -> Ins("BinaryAND", x, y, 0)
        [] fourth_nibble = 3 -> Ins("BinaryXOR", x, y, 0)
        [] fourth_nibble = 4 -> Ins("AddRegisterToRegister", x, y, 0)
        [] fourth_nibble = 5 -> Ins("SubstractXMinusY", x, y, 0)
        [] fourth_nibble = 6 -> Ins("ShiftRight", x, y, 0)
        [] fourth_nibble = 7 -> Ins("SubstractYMinusX", x, y, 0)
        [] fourth_nibble = 14 -> Ins("ShiftLeft", x, y, 0)
        [] OTHER -> ErrInstruction

parse_E(instruction) ==
  LET x == extract_second_nibble(instruction[1])
  IN  CASE instruction[2] = \h9E -> Ins("SkipIfKeyIsPressed", x, 0, 0)
        [] instruction[2] = \hA1 -> Ins("SkipIfKeyIsNotPressed", x, 0, 0)
        [] OTHER -> ErrInstruction

parse_F(instruction) ==
  LET x == extract_second_nibble(instruction[1])
  IN  CASE instruction[2] = \h07 -> Ins("GetDelayTimerValue", x, 0, 0)
        [] instruction[2] = \h0A -> Ins("GetKey", x, 0, 0)
        [] instruction[2] = \h15 -> Ins("SetDelayTimer", x, 0, 0)
        [] instruction[2] = \h18 -> Ins("SetSoundTimer", x, 0, 0)
        [] instruction[2] = \h1E -> Ins("AddRegisterToIndexRegister", x, 0, 0)
        [] instruction[2] = \h29 -> Ins("LoadSprite", x, 0, 0)
        [] instruction[2] = \h33 -> Ins("BCD", x, 0, 0)
        [] instruction[2] = \h55 -> Ins("StoreRegistersToMemory", x, 0, 0)
        [] instruction[2] = \h65 -> Ins("LoadRegistersFromMemory", x, 0, 0)
        [] OTHER -> ErrInstruction

\* Instruction::parse
parse(instruction) ==
  LET first_nibble == Shr(instruction[1], 4)
      xy == extract_registers(instruction)
      x1 == extract_second_nibble(instruction[1])
  IN  CASE first_nibble = 0 -> parse_0(instruction)
        [] first_nibble = 1 -> Ins("Jump", extract_address(instruction), 0, 0)
        [] first_nibble = 2 -> Ins("Call", extract_address(instruction), 0, 0)
        [] first_nibble = 3 ->
             Ins("SkipIfRegisterEqualsConstant", x1, instruction[2], 0)
        [] first_nibble = 4 ->
             Ins("SkipIfRegisterNotEqualsConstant", x1, instruction[2], 0)
        [] first_nibble = 5 ->
             IF extract_second_nibble(instruction[2]) = 0
             THEN Ins("SkipIfRegisterEqualsRegister", xy[1], xy[2], 0)
             ELSE ErrInstruction
        [] first_nibble = 6 -> Ins("SetRegisterToValue", x1, instruction[2], 0)
        [] first_nibble = 7 -> Ins("AddValueToRegister", x1, instruction[2], 0)
        [] first_nibble = 8 -> parse_8(instruction)
        [] first_nibble = 9 ->
             IF extract_second_nibble(instruction[2]) = 0
             THEN Ins("SkipIfRegisterNotEqualsRegister", xy[1], xy[2], 0)
             ELSE ErrInstruction
        [] first_nibble = 10 ->
             Ins("SetIndexRegister", extract_address(instruction), 0, 0)
        [] first_nibble = 11 ->
             Ins("JumpWithOffset", extract_address(instruction), 0, 0)
        [] first_nibble = 12 -> Ins("Random", x1, instruction[2], 0)
        [] first_nibble = 13 ->
             Ins("Draw", xy[1], xy[2], extract_second_nibble(instruction[2]))
        [] first_nibble = 14 -> parse_E(instruction)
        [] first_nibble = 15 -> parse_F(instruction)

(***************************************************************************)
(* The execution engine (src/lib/emulator.rs).                             *)
(***************************************************************************)
\* enum Key, and its conversions to and from the key's number.
Keys ==
  << "Key0", "Key1", "Key2", "Key3", "Key4", "Key5", "Key6", "Key7",
     "Key8", "Key9", "KeyA", "KeyB", "KeyC", "KeyD", "KeyE", "KeyF" >>

to_num(key) == (CHOOSE k \in 1 .. 16 : Keys[k] = key) - 1

\* Key::from_num panics on a number above 0xF: "panic" stands for that.
from_num(n) == IF n <= 15 THEN Keys[n + 1] ELSE "panic"

\* What a call returned: Ok(val), Err(val), or a panic that ended the
\* process ("Exhausted": the model's random bytes ran out, see Random).
Ret(kind, val) == [kind |-> kind, val |-> val]

Min(a, b) == IF a < b THEN a ELSE b

\* The f64 quotient rounded half away from zero, then cast to u8: an `as`
\* cast of a float saturates at the ends of the integer type.
round_as_u8(num, den) == Min((2 * num + den) \div (2 * den), 255)

\* memory: [u8; MEMORY_SIZE] starts as all zeros and is held as the function
\* from the addresses whose byte is not 0 to that byte.  ByteAt(memory, a) is
\* memory[a] for an address a in 0 .. MEMORY_SIZE - 1; the indexing that
\* panics past the end of the array is tested where the code indexes.
ZeroMemory == << >>
ByteAt(memory, a) == IF a \in DOMAIN memory THEN memory[a] ELSE 0

\* *mem = *data for each pair of the zip of memory[start_address..] with
\* buf: the zip stops at the shorter of the two.
zip_write(memory, start_address, buf) ==
  LET written == {a \in start_address .. start_address + Len(buf) - 1 :
                     a < MEMORY_SIZE}
      val(a) == IF a \in written THEN buf[a - start_address + 1] ELSE memory[a]
  IN  [a \in {b \in DOMAIN memory \cup written : val(b) # 0} |-> val(a)]

\* write_to_memory without its check: it writes the bytes that fit.
write_to_memory_unchecked(memory, start_address, buf) ==
  [ok |-> TRUE, memory |-> zip_write(memory, start_address, buf)]

\* Emulator::write_to_memory
write_to_memory(memory, start_address, buf) ==
  IF start_address + Len(buf) > MEMORY_SIZE
  THEN [ok |-> FALSE, memory |-> memory]
  ELSE [ok |-> TRUE, memory |-> zip_write(memory, start_address, buf)]

\* frame_buf: [[bool; 64]; 32] is held as the set of the cells << y, x >>
\* that are on; frame_buf[y][x] is Lit(frame_buf, y, x).
Lit(frame_buf, y, x) == << y, x >> \in frame_buf

\* Emulator::new loading the program one byte past the program origin.
new_program_off_by_one(clock_speed, program) ==
  LET e == [memory |-> ZeroMemory,
            stack |-> << >>,
            registers |-> [r \in 0 .. 15 |-> 0],
            i |-> 0,
            program_counter |-> PROGRAM_START_ADDRESS,
            delay_timer |-> 0,
            sound_timer |-> 0,
            frame_buf |-> {},
            keys_pressed |-> {},
            inst_count |-> 0,
            ticks_per_frame |-> round_as_u8(clock_speed, FPS),
            timers_update_interval |-> round_as_u8(clock_speed, 60),
            rand_num_gen |-> << >>,
            beeper |-> "paused",
            redraw |-> FALSE]
      w1 == write_to_memory(e.memory, PROGRAM_START_ADDRESS + 1, program)
      w2 == write_to_memory(w1.memory, FONT_START_ADDRESS, FONT)
  IN  IF ~w1.ok \/ ~w2.ok
      THEN [ret |-> Ret("Err", "MemoryAccess"), e |-> e]
      ELSE [ret |-> Ret("Ok", "Emulator"), e |-> [e EXCEPT !.memory = w2.memory]]

\* Emulator::new: Err(MemoryAccess) when the program does not fit.
new(clock_speed, program) ==
  LET ticks_per_frame == round_as_u8(clock_speed, FPS)
      timers_update_interval == round_as_u8(clock_speed, 60)
      e == [memory |-> ZeroMemory,
            stack |-> << >>,
            registers |-> [r \in 0 .. 15 |-> 0],
            i |-> 0,
            program_counter |-> PROGRAM_START_ADDRESS,
            delay_timer |-> 0,
            sound_timer |-> 0,
            frame_buf |-> {},
            keys_pressed |-> {},
            inst_count |-> 0,
            ticks_per_frame |-> ticks_per_frame,
            timers_update_interval |-> timers_update_interval,
            rand_num_gen |-> << >>,
            beeper |-> "paused",
            redraw |-> FALSE]
      w1 == write_to_memory(e.memory, PROGRAM_START_ADDRESS, program)
      w2 == write_to_memory(w1.memory, FONT_START_ADDRESS, FONT)
  IN  IF ~w1.ok \/ ~w2.ok
      THEN [ret |-> Ret("Err", "MemoryAccess"), e |-> e]
      ELSE [ret |-> Ret("Ok", "Emulator"), e |-> [e EXCEPT !.memory = w2.memory]]

\* Whether column col (0 = leftmost) of a sprite row is set: the loop tests
\* bit 7 and shifts the row left once per column.
sprite_px_on(sprite_row, col) == BitAnd(Shl8(sprite_row, col), 128) # 0

\* draw_to_fb lighting the cells of the sprite without putting any out.
draw_to_fb_overwrite(frame_buf, x0, y0, sprite) ==
  LET x == BitAnd(x0, WIDTH - 1)
      y == BitAnd(y0, HEIGHT - 1)
      row_iter == Min(HEIGHT - y, Len(sprite))
      col_iter == Min(WIDTH - x, 8)
      touched == {c \in (y .. y + row_iter - 1) \X (x .. x + col_iter - 1) :
                    BitAnd(Shl8(sprite[c[1] - y + 1], c[2] - x), 128) # 0}
  IN  [frame_buf |-> frame_buf \cup touched,
       any_px_erased |-> touched \cap frame_buf # {}]

\* draw_to_fb wrapping the sprite's cells around the right and bottom edges
\* instead of clipping them.
draw_to_fb_wrap(frame_buf, x0, y0, sprite) ==
  LET x == BitAnd(x0, WIDTH - 1)
      y == BitAnd(y0, HEIGHT - 1)
      touched == {<< (y + rc[1]) % HEIGHT, (x + rc[2]) % WIDTH >> :
                    rc \in {c \in (0 .. Len(sprite) - 1) \X (0 .. 7) :
                              BitAnd(Shl8(sprite[c[1] + 1], c[2]), 128) # 0}}
  IN  [frame_buf |-> (frame_buf \ touched) \cup (touched \ frame_buf),
       any_px_erased |-> touched \cap frame_buf # {}]

\* Emulator::draw_to_fb: the framebuffer after the two loops, and whether a
\* lit pixel was put out.  touched are the cells the loops reach with the
\* sprite's pixel on: each is visited once, and is put out if it was on and
\* lit if it was off.
draw_to_fb(frame_buf, x0, y0, sprite) ==
  LET x == BitAnd(x0, WIDTH - 1)
      y == BitAnd(y0, HEIGHT - 1)
      row_iter == Min(HEIGHT - y, Len(sprite))
      col_iter == Min(WIDTH - x, 8)
      touched == {c \in (y .. y + row_iter - 1) \X (x .. x + col_iter - 1) :
                    sprite_px_on(sprite[c[1] - y + 1], c[2] - x)}
  IN  [frame_buf |-> (frame_buf \ touched) \cup (touched \ frame_buf),
       any_px_erased |-> \E row \in 0 .. row_iter - 1 : \E col \in 0 .. col_iter - 1 :
                           /\ sprite_px_on(sprite[row + 1], col)
                           /\ Lit(frame_buf, y + row, x + col)]

\* Emulator::clear_screen
clear_screen(frame_buf) ==
  frame_buf \ ((0 .. HEIGHT - 1) \X (0 .. WIDTH - 1))

\* update_timers decrementing with wraparound: a timer at 0 goes to 255.
update_timers_wrapping(e) ==
  [e EXCEPT !.sound_timer = (e.sound_timer + 255) % 256,
            !.beeper = IF e.sound_timer > 0 THEN e.beeper ELSE "paused",
            !.delay_timer = (e.delay_timer + 255) % 256]

\* Emulator::update_timers
update_timers(e) ==
  [e EXCEPT !.sound_timer = IF e.sound_timer > 0 THEN e.sound_timer - 1 ELSE 0,
            !.beeper = IF e.sound_timer > 0 THEN e.beeper ELSE "paused",
            !.delay_timer = IF e.delay_timer > 0 THEN e.delay_timer - 1 ELSE 0]

(***************************************************************************)
(* Emulator::tick.  Each arm of its match takes the emulator e with the    *)
(* program counter already advanced and gives the emulator after the arm   *)
(* and what tick returns.                                                  *)
(***************************************************************************)
Ok(e, redraw) == [e |-> e, ret |-> Ret("Ok", IF redraw THEN "true" ELSE "false")]
Err(e, error) == [e |-> e, ret |-> Ret("Err", error)]
Panic(e, message) == [e |-> e, ret |-> Ret("Panic", message)]

\* ClearScreen not asking for a redraw.
tick_ClearScreen_no_redraw(e) ==
  Ok([e EXCEPT !.frame_buf = clear_screen(e.frame_buf)], FALSE)

tick_ClearScreen(e) ==
  Ok([e EXCEPT !.frame_buf = clear_screen(e.frame_buf)], TRUE)

\* Draw moving I past the sprite it drew.
tick_Draw_advances_i(e, x, y, n) ==
  IF e.i + n > MEMORY_SIZE
  THEN Panic(e, "range end index out of range")
  ELSE LET d == draw_to_fb(e.frame_buf, e.registers[x], e.registers[y],
                           [k \in 1 .. n |-> ByteAt(e.memory, e.i + k - 1)])
       IN  Ok([e EXCEPT !.frame_buf = d.frame_buf,
                        !.i = e.i + n,
                        !.registers[15] = IF d.any_px_erased THEN 1 ELSE 0],
              TRUE)

\* &self.memory[self.i..self.i + n] panics when the range leaves the array.
tick_Draw(e, x, y, n) ==
  IF e.i + n > MEMORY_SIZE
  THEN Panic(e, "range end index out of range")
  ELSE LET x_coord == e.registers[x]
           y_coord == e.registers[y]
           d == draw_to_fb(e.frame_buf, x_coord, y_coord,
                           [k \in 1 .. n |-> ByteAt(e.memory, e.i + k - 1)])
       IN  Ok([e EXCEPT !.frame_buf = d.frame_buf,
                        !.registers[15] = IF d.any_px_erased THEN 1 ELSE 0],
              TRUE)

tick_Jump(e, adr) == Ok([e EXCEPT !.program_counter = adr], FALSE)

\* JumpWithOffset with the sum reduced to an address of memory.
tick_JumpWithOffset_wrapping(e, adr) ==
  Ok([e EXCEPT !.program_counter = (adr + e.registers[0]) % MEMORY_SIZE], FALSE)

tick_JumpWithOffset(e, adr) ==
  Ok([e EXCEPT !.program_counter = adr + e.registers[0]], FALSE)

\* Call pushing the address of the call itself, not of what follows it.
tick_Call_pushes_own_address(e, adr) ==
  Ok([e EXCEPT !.stack = Append(e.stack, e.program_counter - 2),
               !.program_counter = adr], FALSE)

tick_Call(e, adr) ==
  Ok([e EXCEPT !.stack = Append(e.stack, e.program_counter),
               !.program_counter = adr], FALSE)

tick_Return(e) ==
  IF e.stack = << >>
  THEN Err(e, "StackUnderflow")
  ELSE Ok([e EXCEPT !.stack = SubSeq(e.stack, 1, Len(e.stack) - 1),
                    !.program_counter = e.stack[Len(e.stack)]], FALSE)

\* The skip instructions: the program counter moves on by 2 more when the
\* condition holds.
\* A skip that passes over two instructions.
tick_Skip_two(e, condition) ==
  Ok(IF condition THEN [e EXCEPT !.program_counter = e.program_counter + 4] ELSE e,
     FALSE)

tick_Skip(e, condition) ==
  Ok(IF condition THEN [e EXCEPT !.program_counter = e.program_counter + 2] ELSE e,
     FALSE)

\* A register write that also clears the flag register.
tick_SetRegister_clears_flag(e, x, value) ==
  Ok([e EXCEPT !.registers = [[e.registers EXCEPT ![15] = 0] EXCEPT ![x] = value]], FALSE)

tick_SetRegister(e, x, value) == Ok([e EXCEPT !.registers[x] = value], FALSE)

tick_AddRegisterToRegister(e, x, y) ==
  LET sum == wrapping_add(e.registers[x], e.registers[y])
      flagged == [e.registers EXCEPT ![15] = IF sum < e.registers[x] THEN 1 ELSE 0]
  IN  Ok([e EXCEPT !.registers = [flagged EXCEPT ![x] = sum]], FALSE)

\* SubstractXMinusY with the flag of the no-borrow convention (Vx >= Vy).
tick_SubstractXMinusY_no_borrow(e, x, y) ==
  LET flag == IF e.registers[x] >= e.registers[y] THEN 1 ELSE 0
      result == [e.registers EXCEPT ![x] = wrapping_sub(e.registers[x], e.registers[y])]
  IN  Ok([e EXCEPT !.registers = [result EXCEPT ![15] = flag]], FALSE)

tick_SubstractXMinusY(e, x, y) ==
  LET flag == IF e.registers[x] > e.registers[y] THEN 1 ELSE 0
      result == [e.registers EXCEPT ![x] = wrapping_sub(e.registers[x], e.registers[y])]
  IN  Ok([e EXCEPT !.registers = [result EXCEPT ![15] = flag]], FALSE)

tick_SubstractYMinusX(e, x, y) ==
  LET flag == IF e.registers[y] > e.registers[x] THEN 1 ELSE 0
      result == [e.registers EXCEPT ![x] = wrapping_sub(e.registers[y], e.registers[x])]
  IN  Ok([e EXCEPT !.registers = [result EXCEPT ![15] = flag]], FALSE)

\* ShiftRight shifting Vx in place, ignoring Vy.
tick_ShiftRight_in_place(e, x, y) ==
  LET flag == BitAnd(e.registers[x], 1)
      result == [e.registers EXCEPT ![x] = Shr(e.registers[x], 1)]
  IN  Ok([e EXCEPT !.registers = [result EXCEPT ![15] = flag]], FALSE)

tick_ShiftRight(e, x, y) ==
  LET flag == BitAnd(e.registers[y], 1)
      result == [e.registers EXCEPT ![x] = Shr(e.registers[y], 1)]
  IN  Ok([e EXCEPT !.registers = [result EXCEPT ![15] = flag]], FALSE)

tick_ShiftLeft(e, x, y) ==
  LET flag == IF BitAnd(e.registers[y], 128) # 0 THEN 1 ELSE 0
      result == [e.registers EXCEPT ![x] = Shl8(e.registers[y], 1)]
  IN  Ok([e EXCEPT !.registers = [result EXCEPT ![15] = flag]], FALSE)

\* SkipIfKeyIsPressed (pressed = TRUE) and SkipIfKeyIsNotPressed (FALSE).
tick_SkipIfKey(e, x, pressed) ==
  LET key == from_num(e.registers[x])
  IN  IF key = "panic"
      THEN Panic(e, "explicit panic")
      ELSE tick_Skip(e, (key \in e.keys_pressed) = pressed)

\* GetKey taking a key whenever one or more keys are pressed.
tick_GetKey_any_key(e, x) ==
  IF e.keys_pressed # {}
  THEN Ok([e EXCEPT !.registers[x] =
                      to_num(CHOOSE k \in e.keys_pressed :
                               \A other \in e.keys_pressed : to_num(k) <= to_num(other))],
          FALSE)
  ELSE Ok([e EXCEPT !.program_counter = e.program_counter - 2], FALSE)

tick_GetKey(e, x) ==
  IF Cardinality(e.keys_pressed) = 1
  THEN Ok([e EXCEPT !.registers[x] = to_num(CHOOSE k \in e.keys_pressed : TRUE)], FALSE)
  ELSE Ok([e EXCEPT !.program_counter = e.program_counter - 2], FALSE)

tick_SetSoundTimer(e, x) ==
  Ok([e EXCEPT !.sound_timer = e.registers[x],
               !.beeper = IF e.registers[x] > 0 THEN "playing" ELSE e.beeper], FALSE)

\* StoreRegistersToMemory that writes the registers that fit before it
\* fails.
tick_StoreRegistersToMemory_partial(e, end_index) ==
  LET buf == [k \in 1 .. end_index + 1 |-> e.registers[k - 1]]
      w == write_to_memory(e.memory, e.i, buf)
  IN  IF w.ok THEN Ok([e EXCEPT !.memory = w.memory], FALSE)
      ELSE Err([e EXCEPT !.memory = zip_write(e.memory, e.i, buf)], "MemoryAccess")

tick_StoreRegistersToMemory(e, end_index) ==
  LET w == write_to_memory(e.memory, e.i, [k \in 1 .. end_index + 1 |-> e.registers[k - 1]])
  IN  IF w.ok THEN Ok([e EXCEPT !.memory = w.memory], FALSE)
      ELSE Err(e, "MemoryAccess")

\* LoadRegistersFromMemory over registers[0..end_index], end excluded.
tick_LoadRegistersFromMemory_exclusive(e, end_index) ==
  IF e.i > MEMORY_SIZE
  THEN Panic(e, "range start index out of range")
  ELSE Ok([e EXCEPT !.registers = [r \in 0 .. 15 |->
                       IF r < end_index /\ e.i + r < MEMORY_SIZE
                       THEN ByteAt(e.memory, e.i + r)
                       ELSE e.registers[r]]], FALSE)

\* self.memory[self.i..] panics when i is past the end of the array; the zip
\* with registers[0..=end_index] stops at the shorter of the two.
tick_LoadRegistersFromMemory(e, end_index) ==
  IF e.i > MEMORY_SIZE
  THEN Panic(e, "range start index out of range")
  ELSE Ok([e EXCEPT !.registers = [r \in 0 .. 15 |->
                       IF r <= end_index /\ e.i + r < MEMORY_SIZE
                       THEN ByteAt(e.memory, e.i + r)
                       ELSE e.registers[r]]], FALSE)

\* BCD writing the digits least significant first.
tick_BCD_least_first(e, x) ==
  LET n == << e.registers[x] % 10,
              (e.registers[x] % 100) \div 10,
              e.registers[x] \div 100 >>
      w == write_to_memory(e.memory, e.i, n)
  IN  IF w.ok THEN Ok([e EXCEPT !.memory = w.memory], FALSE)
      ELSE Err(e, "MemoryAccess")

tick_BCD(e, x) ==
  LET n == << e.registers[x] \div 100,
              (e.registers[x] % 100) \div 10,
              e.registers[x] % 10 >>
      w == write_to_memory(e.memory, e.i, n)
  IN  IF w.ok THEN Ok([e EXCEPT !.memory = w.memory], FALSE)
      ELSE Err(e, "MemoryAccess")

\* rand_num_gen holds the bytes the generator yields next; gen() takes the
\* first.  A model run ends ("Exhausted") where they run out.
tick_Random(e, x, c) ==
  IF e.rand_num_gen = << >>
  THEN [e |-> e, ret |-> Ret("Exhausted", "rand_num_gen")]
  ELSE Ok([e EXCEPT !.registers[x] = BitAnd(Head(e.rand_num_gen), c),
                    !.rand_num_gen = Tail(e.rand_num_gen)], FALSE)

\* The match of tick.
execute(e, ins) ==
  LET op == ins.op
      V == e.registers
  IN  CASE op = "ClearScreen" -> tick_ClearScreen(e)
        [] op = "Draw" -> tick_Draw(e, ins.a, ins.b, ins.c)
        [] op = "Jump" -> tick_Jump(e, ins.a)
        [] op = "JumpWithOffset" -> tick_JumpWithOffset(e, ins.a)
        [] op = "Call" -> tick_Call(e, ins.a)
        [] op = "Return" -> tick_Return(e)
        [] op = "SkipIfRegisterEqualsConstant" -> tick_Skip(e, V[ins.a] = ins.b)
        [] op = "SkipIfRegisterNotEqualsConstant" -> tick_Skip(e, V[ins.a] # ins.b)
        [] op = "SkipIfRegisterEqualsRegister" -> tick_Skip(e, V[ins.a] = V[ins.b])
        [] op = "SkipIfRegisterNotEqualsRegister" -> tick_Skip(e, V[ins.a] # V[ins.b])
        [] op = "SetRegisterToValue" -> tick_SetRegister(e, ins.a, ins.b)
        [] op = "SetRegisterToValueOfRegister" -> tick_SetRegister(e, ins.a, V[ins.b])
        [] op = "BinaryOR" -> tick_SetRegister(e, ins.a, BitOr(V[ins.a], V[ins.b]))
        [] op = "BinaryAND" -> tick_SetRegister(e, ins.a, BitAnd(V[ins.a], V[ins.b]))
        [] op = "BinaryXOR" -> tick_SetRegister(e, ins.a, BitXor(V[ins.a], V[ins.b]))
        [] op = "AddValueToRegister" ->
             tick_SetRegister(e, ins.a, wrapping_add(V[ins.a], ins.b))
        [] op = "AddRegisterToRegister" -> tick_AddRegisterToRegister(e, ins.a, ins.b)
        [] op = "SubstractXMinusY" -> tick_SubstractXMinusY(e, ins.a, ins.b)
        [] op = "SubstractYMinusX" -> tick_SubstractYMinusX(e, ins.a, ins.b)
        [] op = "ShiftRight" -> tick_ShiftRight(e, ins.a, ins.b)
        [] op = "ShiftLeft" -> tick_ShiftLeft(e, ins.a, ins.b)
        [] op = "SkipIfKeyIsPressed" -> tick_SkipIfKey(e, ins.a, TRUE)
        [] op = "SkipIfKeyIsNotPressed" -> tick_SkipIfKey(e, ins.a, FALSE)
        [] op = "GetKey" -> tick_GetKey(e, ins.a)
        [] op = "GetDelayTimerValue" -> tick_SetRegister(e, ins.a, e.delay_timer)
        [] op = "SetDelayTimer" -> Ok([e EXCEPT !.delay_timer = V[ins.a]], FALSE)
        [] op = "SetSoundTimer" -> tick_SetSoundTimer(e, ins.a)
        [] op = "StoreRegistersToMemory" -> tick_StoreRegistersToMemory(e, ins.a)
        [] op = "LoadRegistersFromMemory" -> tick_LoadRegistersFromMemory(e, ins.a)
        [] op = "SetIndexRegister" -> Ok([e EXCEPT !.i = ins.a], FALSE)
        [] op = "AddRegisterToIndexRegister" -> Ok([e EXCEPT !.i = e.i + V[ins.a]], FALSE)
        [] op = "LoadSprite" ->
             Ok([e EXCEPT !.i = FONT_START_ADDRESS + V[ins.a] * 5], FALSE)
        [] op = "BCD" -> tick_BCD(e, ins.a)
        [] op = "Random" -> tick_Random(e, ins.a, ins.b)

\* The record of one tick: where it fetched, the call stack, the
\* framebuffer, the registers, I, the timers and the count of instructions
\* before it, the bytes fetched, the instruction decoded and what the tick
\* returned.
Entry(e, bytes, ins, ret) ==
  [pc |-> e.program_counter, stack |-> e.stack, frame_buf |-> e.frame_buf,
   registers |-> e.registers, i |-> e.i,
   delay_timer |-> e.delay_timer, sound_timer |-> e.sound_timer,
   inst_count |-> e.inst_count,
   bytes |-> bytes, ins |-> ins, ret |-> ret]

NoInstruction == Ins("None", 0, 0, 0)

\* Emulator::tick: the fetch (indexing memory at program_counter and
\* program_counter + 1 panics past the end of the array), the advance of the
\* program counter, the decoding and the match.
\* The result r of the tick of e that fetched bytes and decoded ins.
ticked(e, bytes, ins, r) ==
  [e |-> r.e, ret |-> r.ret, entry |-> Entry(e, bytes, ins, r.ret)]

\* An undecodable instruction skipped as a no-op.
parse_then_skip_unknown(e, ins) ==
  IF ins.op = "Err" THEN Ok(e, FALSE) ELSE execute(e, ins)

\* Instruction::parse(...)? followed by the match on the instruction.
parse_then_execute(e, ins) ==
  IF ins.op = "Err" THEN Err(e, "Instruction") ELSE execute(e, ins)

tick(e) ==
  IF e.program_counter + 1 > MEMORY_SIZE - 1
  THEN ticked(e, << >>, NoInstruction, Panic(e, "index out of bounds"))
  ELSE LET fetched == << ByteAt(e.memory, e.program_counter),
                         ByteAt(e.memory, e.program_counter + 1) >>
       IN  ticked(e, fetched, parse(fetched),
                  parse_then_execute(
                    [e EXCEPT !.program_counter = e.program_counter + 2],
                    parse(fetched)))

\* The loop of Emulator::run_frame with n iterations left: the first tick
\* that does not return Ok ends the call.  inst_count is a u8, and adding 1
\* to 255 panics in a debug build.
RECURSIVE run_frame_loop(_, _, _, _)

\* F of the value of v, computed once, as a local variable of the loop
\* holds it.
ByValue(F(_), v) == CHOOSE r \in {F(x) : x \in {v}} : TRUE

\* The count compared with the interval before it is incremented.
count_instruction_late(e) ==
  IF e.inst_count = e.timers_update_interval
  THEN [update_timers(e) EXCEPT !.inst_count = 0]
  ELSE [e EXCEPT !.inst_count = e.inst_count + 1]

\* The count of the instruction with the timers updated at the interval
\* but the count left to run on.
count_instruction_no_reset(e) ==
  IF e.inst_count + 1 = e.timers_update_interval
  THEN [update_timers(e) EXCEPT !.inst_count = e.inst_count + 1]
  ELSE [e EXCEPT !.inst_count = e.inst_count + 1]

\* The count of the instruction and the update of the timers when the count
\* reaches the interval.
count_instruction(e) ==
  IF e.inst_count + 1 = e.timers_update_interval
  THEN [update_timers(e) EXCEPT !.inst_count = 0]
  ELSE [e EXCEPT !.inst_count = e.inst_count + 1]

\* The body of the loop storing the redraw flag also when the tick failed.
after_tick_sets_redraw(t, n, redraw, log) ==
  IF t.ret.kind # "Ok"
  THEN [e |-> [t.e EXCEPT !.redraw = redraw], ret |-> t.ret, log |-> log]
  ELSE IF t.e.inst_count = 255
  THEN [e |-> t.e, ret |-> Ret("Panic", "attempt to add with overflow"), log |-> log]
  ELSE ByValue(LAMBDA s : run_frame_loop(s.e, n, s.redraw, s.log),
               [e |-> count_instruction(t.e),
                redraw |-> (t.ret.val = "true") \/ redraw,
                log |-> log])

\* The body of the loop after its tick returned t, with n iterations left
\* after this one: the iterations left start from the state s in which
\* this one ends.
after_tick(t, n, redraw, log) ==
  IF t.ret.kind # "Ok"
  THEN [e |-> t.e, ret |-> t.ret, log |-> log]
  ELSE IF t.e.inst_count = 255
  THEN [e |-> t.e, ret |-> Ret("Panic", "attempt to add with overflow"), log |-> log]
  ELSE ByValue(LAMBDA s : run_frame_loop(s.e, n, s.redraw, s.log),
               [e |-> count_instruction(t.e),
                redraw |-> (t.ret.val = "true") \/ redraw,
                log |-> log])

tick_and_log(t, n, redraw, log) == after_tick(t, n, redraw, Append(log, t.entry))

run_frame_loop(e, n, redraw, log) ==
  IF n = 0
  THEN [e |-> [e EXCEPT !.redraw = redraw], ret |-> Ret("Ok", "()"), log |-> log]
  ELSE ByValue(LAMBDA t : tick_and_log(t, n - 1, redraw, log), tick(e))

\* Emulator::run_frame
run_frame(e) == run_frame_loop(e, e.ticks_per_frame, FALSE, << >>)

\* set_keys_pressed adding the supplied keys to those already held.
set_keys_pressed_adds(e, keys_pressed) ==
  [e EXCEPT !.keys_pressed = e.keys_pressed \cup keys_pressed]

\* Emulator::set_keys_pressed
set_keys_pressed(e, keys_pressed) == [e EXCEPT !.keys_pressed = keys_pressed]

(***************************************************************************)
(* The state machine.  emulator is the Emulator the frame loop owns; ret   *)
(* is what the last call of new, tick or run_frame returned; trace is the  *)
(* record of every tick made so far; instruction_bytes and instruction are *)
(* the argument and the result of the last Instruction::parse; args are    *)
(* the clock speed and the program that main.rs passed to Emulator::new.   *)
(***************************************************************************)
VARIABLES emulator, ret, trace, instruction_bytes, instruction, args

vars == << emulator, ret, trace, instruction_bytes, instruction, args >>

\* Bounds of the model.
MaxTicks == 14
MaxVal == 1
MaxReg == 1
MaxKeys == 2
MaxDepth == 3
MaxPad == 1
MaxSlots == 3
MaxEdge == 3
MaxHeight == 2

\* Sample register values: both ends of the u8 range and the sign bit.
Vals == (0 .. MaxVal) \cup {127, 128} \cup (255 - MaxVal .. 255)

\* Sample register indices: the low registers and the flag register.
Regs == (0 .. MaxReg) \cup {15}

\* Sample sets of pressed keys: the first k keys, and each key alone.
KeySets ==
  {{Keys[j] : j \in 1 .. k} : k \in 0 .. MaxKeys} \cup {{Keys[k]} : k \in 1 .. MaxKeys}

\* The default clock speed of the command line (main.rs).
DefaultClockSpeed == 400

\* Instruction words, as the two bytes of a program.
W(n1, n2, n3, n4) == << n1 * 16 + n2, n3 * 16 + n4 >>
WX(n1, x, nn) == << n1 * 16 + x, nn >>
WA(n1, nnn) == << n1 * 16 + nnn \div 256, nnn % 256 >>

\* The bytes of a sequence of instruction words.
Flatten(words) == [k \in 1 .. 2 * Len(words) |-> words[(k + 1) \div 2][2 - (k % 2)]]

\* The arguments of Emulator::new.
Args(clock_speed, program) == [clock_speed |-> clock_speed, program |-> program]

\* The machine as constructed from a clock speed, a program and the bytes
\* its random number generator will yield.
Constructed(clock_speed, program, random) ==
  \E made \in {new(clock_speed, program)} :
  /\ args = Args(clock_speed, program)
  /\ made.ret.kind = "Ok"
  /\ emulator = [made.e EXCEPT !.rand_num_gen = random]
  /\ ret = made.ret
  /\ trace = << >>
  /\ instruction_bytes = << >>
  /\ instruction = NoInstruction

\* A frame loop that goes on calling the emulator after an error.
Running_after_errors == ret.kind \in {"Ok", "Err"}

\* The frame loop stops at the first error (main.rs exits the process), and
\* a panic ends the process.
Running == ret.kind = "Ok"

\* One call of Emulator::tick.
Tick ==
  /\ Running
  /\ Len(trace) < MaxTicks
  /\ \E t \in {tick(emulator)} :
         /\ t.ret.kind # "Exhausted"
         /\ emulator' = t.e
         /\ ret' = t.ret
         /\ trace' = Append(trace, t.entry)
         /\ instruction_bytes' = t.entry.bytes
         /\ instruction' = t.entry.ins
         /\ UNCHANGED args

\* One call of Emulator::run_frame (the update closure of main.rs).
RunFrame ==
  /\ Running
  /\ \E f \in {run_frame(emulator)} :
         /\ f.ret.kind # "Exhausted"
         /\ Len(trace) + Len(f.log) <= MaxTicks
         /\ emulator' = f.e
         /\ ret' = f.ret
         /\ trace' = trace \o f.log
         /\ instruction_bytes' =
              IF f.log = << >> THEN instruction_bytes ELSE f.log[Len(f.log)].bytes
         /\ instruction' =
              IF f.log = << >> THEN instruction ELSE f.log[Len(f.log)].ins
         /\ UNCHANGED args

\* One call of Emulator::set_keys_pressed (the event closure of main.rs).
SetKeysPressed(keys_pressed) ==
  /\ Running
  /\ emulator' = set_keys_pressed(emulator, keys_pressed)
  /\ UNCHANGED << ret, trace, instruction_bytes, instruction, args >>

Next ==
  \/ Tick
  \/ RunFrame
  \/ \E keys_pressed \in KeySets : SetKeysPressed(keys_pressed)

(***************************************************************************)
(* The decoder alone: every two-byte word, parsed once.                    *)
(***************************************************************************)
InitParse ==
  /\ emulator = new(DefaultClockSpeed, << >>).e
  /\ ret = new(DefaultClockSpeed, << >>).ret
  /\ trace = << >>
  /\ instruction_bytes \in Byte \X Byte
  /\ instruction = NoInstruction
  /\ args = Args(DefaultClockSpeed, << >>)

ParseStep ==
  /\ instruction = NoInstruction
  /\ instruction' = parse(instruction_bytes)
  /\ UNCHANGED << emulator, ret, trace, instruction_bytes, args >>

SpecParse == InitParse /\ [][ParseStep]_vars

\* The nibbles of the word parsed.
N1 == instruction_bytes[1] \div 16
N2 == instruction_bytes[1] % 16
N3 == instruction_bytes[2] \div 16
N4 == instruction_bytes[2] % 16

\* The patterns the claim enumerates.
Documented ==
  \/ N1 = 0 /\ N2 = 0 /\ N3 = 14 /\ N4 \in {0, 14}
  \/ N1 \in {1, 2, 3, 4, 6, 7, 10, 11, 12, 13}
  \/ N1 \in {5, 9} /\ N4 = 0
  \/ N1 = 8 /\ N4 \in (0 .. 7) \cup {14}
  \/ N1 = 14 /\ << N3, N4 >> \in {<< 9, 14 >>, << 10, 1 >>}
  \/ N1 = 15 /\ << N3, N4 >> \in {<< 0, 7 >>, << 0, 10 >>, << 1, 5 >>, << 1, 8 >>,
                                  << 1, 14 >>, << 2, 9 >>, << 3, 3 >>, << 5, 5 >>,
                                  << 6, 5 >>}

Variants ==
  {"ClearScreen", "Draw", "Jump", "JumpWithOffset", "Call", "Return",
   "SkipIfRegisterEqualsConstant", "SkipIfRegisterNotEqualsConstant",
   "SkipIfRegisterEqualsRegister", "SkipIfRegisterNotEqualsRegister",
   "SetRegisterToValue", "SetRegisterToValueOfRegister", "BinaryOR", "BinaryAND",
   "BinaryXOR", "AddValueToRegister", "AddRegisterToRegister", "SubstractXMinusY",
   "SubstractYMinusX", "ShiftRight", "ShiftLeft", "SkipIfKeyIsPressed",
   "SkipIfKeyIsNotPressed", "GetKey", "GetDelayTimerValue", "SetDelayTimer",
   "SetSoundTimer", "StoreRegistersToMemory", "LoadRegistersFromMemory",
   "SetIndexRegister", "AddRegisterToIndexRegister", "LoadSprite", "BCD", "Random"}

\* C1: parse is total over the 65536 words: every word gives one variant of
\* Instruction or the unknown-instruction error, and it gives a variant
\* exactly for the enumerated patterns; every other word fails.
C1_ParseTotal ==
  instruction # NoInstruction =>
    /\ instruction.op \in Variants \cup {"Err"}
    /\ instruction.op # "Err" <=> Documented

\* C1 witness: 5AA2 (5XYn with n # 0, of tests::test_invalid) has failed.
C1_Witness ==
  /\ instruction_bytes = << \h5A, \hA2 >>
  /\ instruction = ErrInstruction

\* The variants by the operands they carry.
AddressOps == {"Jump", "Call", "SetIndexRegister", "JumpWithOffset"}
ConstantOps ==
  {"SkipIfRegisterEqualsConstant", "SkipIfRegisterNotEqualsConstant",
   "SetRegisterToValue", "AddValueToRegister", "Random"}
RegisterPairOps ==
  {"SkipIfRegisterEqualsRegister", "SkipIfRegisterNotEqualsRegister",
   "SetRegisterToValueOfRegister", "BinaryOR", "BinaryAND", "BinaryXOR",
   "AddRegisterToRegister", "SubstractXMinusY", "SubstractYMinusX", "ShiftRight",
   "ShiftLeft", "Draw"}
NoOperandOps == {"ClearScreen", "Return"}
RegisterOps == Variants \ (AddressOps \cup NoOperandOps)

\* C2: of a decoded word (b0, b1): the address is (b0 mod 16) * 256 + b1, in
\* 0..0xFFF; the first register is b0 mod 16; the second register is
\* b1 div 16; the constant is b1; the sprite height is b1 mod 16.  So every
\* register index decoded, which is every index tick uses on the register
\* file besides the literals 0 and 0xF, is in 0..15.
C2_Operands ==
  LET b0 == instruction_bytes[1]
      b1 == instruction_bytes[2]
  IN  instruction.op \in Variants =>
        /\ instruction.op \in AddressOps =>
             instruction.a = (b0 % 16) * 256 + b1 /\ instruction.a \in 0 .. 4095
        /\ instruction.op \in RegisterOps =>
             instruction.a = b0 % 16 /\ instruction.a \in 0 .. 15
        /\ instruction.op \in RegisterPairOps =>
             instruction.b = b1 \div 16 /\ instruction.b \in 0 .. 15
        /\ instruction.op \in ConstantOps => instruction.b = b1
        /\ instruction.op = "Draw" => instruction.c = b1 % 16

\* C2 witness: D291 has decoded to Draw(2, 9, 1), as in tests::test_valid.
C2_Witness ==
  /\ instruction_bytes = << \hD2, \h91 >>
  /\ instruction = Ins("Draw", 2, 9, 1)

(***************************************************************************)
(* Register arithmetic: programs that load two registers and apply one     *)
(* 8XYk instruction to them.                                               *)
(***************************************************************************)
AluOps == (0 .. 7) \cup {14}

InitAlu ==
  \E x \in Regs, y \in Regs, a \in Vals, b \in Vals, k \in AluOps :
    Constructed(DefaultClockSpeed, WX(6, x, a) \o WX(6, y, b) \o W(8, x, y, k), << >>)

SpecAlu == InitAlu /\ [][Next]_vars

\* A step that makes exactly one tick, and the record of that tick.
SingleTick == Len(trace') = Len(trace) + 1
Executed == trace'[Len(trace')]

\* The registers before and after the step.
V(r) == emulator.registers[r]
VAfter(r) == emulator'.registers[r]

\* C7: after 8XY4, for all x and y (15 included), V15 is 1 if the operands
\* before the tick sum to more than 255 and 0 otherwise, and for x # 15
\* Vx is their sum mod 256.
C7_AddCarry ==
  [][SingleTick /\ Executed.ins.op = "AddRegisterToRegister" =>
       LET x == Executed.ins.a
           y == Executed.ins.b
       IN  /\ VAfter(15) = IF V(x) + V(y) > 255 THEN 1 ELSE 0
           /\ x # 15 => VAfter(x) = (V(x) + V(y)) % 256]_vars

\* C8: 8XY5 sets Vx to (Vx - Vy) mod 256 and V15 to 1 iff Vx > Vy before the
\* tick; 8XY7 sets Vx to (Vy - Vx) mod 256 and V15 to 1 iff Vy > Vx before
\* the tick.  For every x and y, 15 included, V15 holds the flag after the
\* tick (so with x = 15 the register holds the flag, not the difference).
C8_SubtractFlag ==
  [][SingleTick =>
       LET x == Executed.ins.a
           y == Executed.ins.b
       IN  /\ Executed.ins.op = "SubstractXMinusY" =>
                /\ Executed.ret = Ret("Ok", "false")
                /\ VAfter(15) = IF V(x) > V(y) THEN 1 ELSE 0
                /\ x # 15 => VAfter(x) = (V(x) - V(y)) % 256
           /\ Executed.ins.op = "SubstractYMinusX" =>
                /\ Executed.ret = Ret("Ok", "false")
                /\ VAfter(15) = IF V(y) > V(x) THEN 1 ELSE 0
                /\ x # 15 => VAfter(x) = (V(y) - V(x)) % 256]_vars

\* C8 witness: 8015 has run with V0 = 1 and V1 = 255: V0 is 2 (wrapped) and
\* the flag is 0.
C8_Witness ==
  /\ trace # << >>
  /\ trace[Len(trace)].ins = Ins("SubstractXMinusY", 0, 1, 0)
  /\ emulator.registers[1] = 255
  /\ emulator.registers[0] = 2
  /\ emulator.registers[15] = 0

\* C9 as stated: 8XY6 sets Vx to Vy div 2 and V15 to the low bit of Vy, 8XYE
\* sets Vx to (Vy * 2) mod 256 and V15 to bit 7 of Vy (Vy before the tick),
\* for every x and y.
C9_ShiftAsStated ==
  [][SingleTick =>
       LET x == Executed.ins.a
           y == Executed.ins.b
       IN  /\ Executed.ins.op = "ShiftRight" =>
                VAfter(x) = V(y) \div 2 /\ VAfter(15) = V(y) % 2
           /\ Executed.ins.op = "ShiftLeft" =>
                VAfter(x) = (V(y) * 2) % 256 /\ VAfter(15) = V(y) \div 128]_vars

\* C9, amended: the shifts read Vy and write Vx, also when x = y: V15 is
\* the bit shifted out of Vy for every x and y, and for x # 15 Vx is
\* Vy div 2 (8XY6) or (Vy * 2) mod 256 (8XYE); with x = 15 the flag is
\* written last and the shifted value is lost.  Vy is unchanged when y
\* differs from x and from 15.
C9_Shift ==
  [][SingleTick /\ Executed.ins.op \in {"ShiftRight", "ShiftLeft"} =>
       LET x == Executed.ins.a
           y == Executed.ins.b
           right == Executed.ins.op = "ShiftRight"
       IN  /\ Executed.ret = Ret("Ok", "false")
           /\ VAfter(15) = IF right THEN V(y) % 2 ELSE V(y) \div 128
           /\ x # 15 => VAfter(x) = IF right THEN V(y) \div 2 ELSE (V(y) * 2) % 256
           /\ y # x /\ y # 15 => VAfter(y) = V(y)]_vars

\* C9 witness: 8006 (x = y = 0) has run on V0 = 255: V0 is 127 and the flag
\* is the bit shifted out.
C9_Witness ==
  /\ Len(trace) = 3
  /\ trace[3].ins = Ins("ShiftRight", 0, 0, 0)
  /\ trace[2].bytes = << \h60, 255 >>
  /\ emulator.registers[0] = 127
  /\ emulator.registers[15] = 1

(***************************************************************************)
(* Subroutines: programs of calls and returns.                             *)
(***************************************************************************)
\* n calls nested in each other after pad instructions 6000: call k, at
\* A(k), calls A(k + 1), and a return follows every call; at A(n), a
\* return.
NestProgram(n, pad) ==
  LET A(k) == PROGRAM_START_ADDRESS + 2 * pad + 4 * k
  IN  Flatten([k \in 1 .. pad + 2 * n + 1 |->
                 IF k <= pad THEN WX(6, 0, 0)
                 ELSE IF k = pad + 2 * n + 1 \/ (k - pad) % 2 = 0 THEN W(0, 0, 14, 14)
                 ELSE WA(2, A((k - pad + 1) \div 2))])

\* Every program of MaxSlots words, each a return or a call of one of the
\* words.
SlotPrograms ==
  LET slot(k) == PROGRAM_START_ADDRESS + 2 * (k - 1)
      words == {W(0, 0, 14, 14)} \cup {WA(2, slot(k)) : k \in 1 .. MaxSlots}
  IN  {Flatten(p) : p \in [1 .. MaxSlots -> words]}

InitStack ==
  \E program \in {NestProgram(n, pad) : n \in 0 .. MaxDepth, pad \in 0 .. MaxPad}
                   \cup SlotPrograms :
    Constructed(DefaultClockSpeed, program, << >>)

SpecStack == InitStack /\ [][Next]_vars

\* The call stack after tick k of the trace.
StackAfter(k) == IF k < Len(trace) THEN trace[k + 1].stack ELSE emulator.stack

IsCall(k) == trace[k].ins.op = "Call" /\ trace[k].ret.kind = "Ok"
IsReturn(k) == trace[k].ins.op = "Return" /\ trace[k].ret.kind = "Ok"

\* C6: whenever the ticks made so far end with n calls in a row followed by
\* m <= n returns in a row, the last return resumes at the instruction after
\* its matching call (the m-th last of the calls) with the call stack as it
\* was before that call; with m = n that is the return point of the
\* outermost call and the original stack.  A return on the empty stack
\* fails with StackUnderflow and pops nothing.
C6_StackDiscipline ==
  /\ \A n \in 1 .. Len(trace) : \A m \in 1 .. n :
       LET first == Len(trace) - (n + m) + 1
           match == first + n - m
       IN  (/\ first >= 1
            /\ \A k \in first .. first + n - 1 : IsCall(k)
            /\ \A k \in first + n .. Len(trace) : IsReturn(k))
           => /\ emulator.program_counter = trace[match].pc + 2
              /\ emulator.stack = trace[match].stack
  /\ \A k \in 1 .. Len(trace) :
       trace[k].ins.op = "Return" /\ trace[k].stack = << >> =>
         /\ trace[k].ret = Ret("Err", "StackUnderflow")
         /\ StackAfter(k) = << >>

\* C6 witness: MaxDepth - 1 nested calls, as many returns, and one more
\* return, which failed with stack underflow.
C6_Witness ==
  LET n == MaxDepth - 1
  IN  /\ Len(trace) = 2 * n + 1
      /\ \A k \in 1 .. n : IsCall(k)
      /\ \A k \in n + 1 .. 2 * n : IsReturn(k)
      /\ trace[2 * n + 1].pc = trace[1].pc + 2
      /\ trace[2 * n + 1].stack = << >>
      /\ ret = Ret("Err", "StackUnderflow")

(***************************************************************************)
(* Memory bounds: programs that move I or the program counter to the end   *)
(* of memory and access memory there.                                      *)
(***************************************************************************)
\* An address well inside memory, and the last addresses of memory.
Addrs == {\h300} \cup (MEMORY_SIZE - 1 - MaxEdge .. MEMORY_SIZE - 1)

\* FX55, FX65 and FX33 on the sample registers, and D01N.
MemOps ==
  {WX(15, x, nn) : x \in Regs, nn \in {\h55, \h65, \h33}}
    \cup {W(13, 0, 1, n) : n \in 0 .. MaxHeight}

\* V0 = a, V1 = b, I = nnn + V0, then one access at I.
IndexPrograms ==
  {Flatten(<< WX(6, 0, a), WX(6, 1, b), WA(10, nnn), WX(15, 0, \h1E), op >>) :
     a \in Vals, b \in 255 - MaxVal .. 255, nnn \in Addrs, op \in MemOps}

\* V0 = a, then 1NNN or BNNN.
JumpPrograms ==
  {Flatten(<< WX(6, 0, a), WA(n1, nnn) >>) :
     a \in Vals, nnn \in Addrs, n1 \in {1, 11}}

\* A program that fills memory to its end: a jump to the last word, which
\* is 6000, so that the program counter runs off the end of memory.
RunOffProgram ==
  LET len == MEMORY_SIZE - PROGRAM_START_ADDRESS
  IN  [k \in 1 .. len |->
         CASE k = 1 -> \h1F
           [] k = 2 -> \hFE
           [] k = len - 1 -> \h60
           [] OTHER -> 0]

InitMem ==
  \E program \in IndexPrograms \cup JumpPrograms \cup {RunOffProgram} :
    Constructed(DefaultClockSpeed, program, << >>)

SpecMem == InitMem /\ [][Next]_vars

\* C3: a tick that reads memory out of bounds returns Err(MemoryAccess): a
\* fetch with program_counter + 1 > 4095, and a Draw with I + N > 4096.
C3_ReadOutOfBoundsIsError ==
  [][SingleTick =>
       /\ emulator.program_counter + 1 > MEMORY_SIZE - 1 =>
            Executed.ret = Ret("Err", "MemoryAccess")
       /\ Executed.ins.op = "Draw" /\ emulator.i + Executed.ins.c > MEMORY_SIZE =>
            Executed.ret = Ret("Err", "MemoryAccess")]_vars

\* C4: FX65 with I + X + 1 > 4096 fails with MemoryAccess and changes no
\* register.
C4_LoadOutOfBoundsIsError ==
  [][SingleTick /\ Executed.ins.op = "LoadRegistersFromMemory"
       /\ emulator.i + Executed.ins.a + 1 > MEMORY_SIZE =>
         /\ Executed.ret = Ret("Err", "MemoryAccess")
         /\ emulator'.registers = emulator.registers]_vars

\* The addresses at which the memory may differ before and after a step.
Touched == DOMAIN emulator.memory \cup DOMAIN emulator'.memory

\* C5: FX55 with I + X + 1 > 4096 and FX33 with I + 3 > 4096 return
\* Err(MemoryAccess) and leave memory unchanged; otherwise FX55 writes
\* V0 .. VX to memory[I .. I + X], FX33 writes memory[I .. I + 2], and no
\* other byte of memory changes.
C5_StoreBoundsChecked ==
  [][SingleTick /\ Executed.ins.op \in {"StoreRegistersToMemory", "BCD"} =>
       LET I == emulator.i
           X == Executed.ins.a
           store == Executed.ins.op = "StoreRegistersToMemory"
           last == IF store THEN I + X ELSE I + 2
       IN  IF last + 1 > MEMORY_SIZE
           THEN /\ Executed.ret = Ret("Err", "MemoryAccess")
                /\ \A a \in Touched :
                     ByteAt(emulator'.memory, a) = ByteAt(emulator.memory, a)
           ELSE /\ Executed.ret = Ret("Ok", "false")
                /\ \A a \in Touched \ (I .. last) :
                     ByteAt(emulator'.memory, a) = ByteAt(emulator.memory, a)
                /\ store => \A a \in I .. last :
                              ByteAt(emulator'.memory, a) = V(a - I)]_vars

\* C5 witness: F155 has run with I = 4095, where V0 fits and V1 does not:
\* the tick returned Err(MemoryAccess) and memory[4095] is still 0.
C5_Witness ==
  /\ trace # << >>
  /\ trace[Len(trace)].ins = Ins("StoreRegistersToMemory", 1, 0, 0)
  /\ emulator.i = MEMORY_SIZE - 1
  /\ emulator.registers[0] = 1
  /\ ret = Ret("Err", "MemoryAccess")
  /\ ByteAt(emulator.memory, MEMORY_SIZE - 1) = 0

(***************************************************************************)
(* Sprites: programs that draw twice at one place, the second sprite the   *)
(* same as the first or the one a row further in the sprite data.          *)
(***************************************************************************)
SpriteRows == {\h0F, \hF0, \hFF}

\* V0 = cx, V1 = cy, I = data, D01N, I = data + d, D01N, and two rows of
\* sprite data after the six instructions (the memory after them is 0).
DrawPrograms ==
  LET data == PROGRAM_START_ADDRESS + 12
  IN  {Flatten(<< WX(6, 0, cx), WX(6, 1, cy), WA(10, data), W(13, 0, 1, n),
                  WA(10, data + d), W(13, 0, 1, n) >>) \o rows :
         cx \in Vals, cy \in {0, 255}, n \in 0 .. MaxHeight, d \in {0, 1},
         rows \in SpriteRows \X SpriteRows}

InitDraw ==
  \E program \in DrawPrograms : Constructed(DefaultClockSpeed, program, << >>)

SpecDraw == InitDraw /\ [][Next]_vars

\* Of the Draw a step executes: whether bit col (0 = leftmost) of sprite
\* row `row` is set, and the cell it falls on.
SpriteBit(row, col) ==
  (ByteAt(emulator.memory, emulator.i + row) \div Pow2(7 - col)) % 2 = 1
CellY(row) == (V(Executed.ins.b) % HEIGHT) + row
CellX(col) == (V(Executed.ins.a) % WIDTH) + col

\* C10: Draw XORs: every set sprite bit that falls on a visible cell toggles
\* that cell, every clear sprite bit leaves its cell unchanged, and after
\* the tick V15 is 1 if a cell went from on to off in this draw and 0
\* otherwise.
C10_DrawXor ==
  [][SingleTick /\ Executed.ins.op = "Draw" /\ Executed.ret.kind = "Ok" =>
       /\ \A row \in 0 .. Executed.ins.c - 1 : \A col \in 0 .. 7 :
            CellY(row) < HEIGHT /\ CellX(col) < WIDTH =>
              Lit(emulator'.frame_buf, CellY(row), CellX(col))
                = IF SpriteBit(row, col)
                  THEN ~Lit(emulator.frame_buf, CellY(row), CellX(col))
                  ELSE Lit(emulator.frame_buf, CellY(row), CellX(col))
       /\ VAfter(15) = IF emulator.frame_buf \ emulator'.frame_buf # {} THEN 1 ELSE 0
       /\ Executed.ret = Ret("Ok", "true")]_vars

\* C10 witness: the second Draw has put out some cells of the first and
\* left others on, and the flag is 1.
C10_Witness ==
  /\ Len(trace) = 6
  /\ trace[6].ins.op = "Draw"
  /\ trace[6].ins.c = 2
  /\ emulator.registers[15] = 1
  /\ emulator.frame_buf # {}

\* The framebuffer cells a step changes, and the origin of the Draw it
\* executes.
Changed ==
  (emulator.frame_buf \ emulator'.frame_buf) \cup (emulator'.frame_buf \ emulator.frame_buf)
OriginX == V(Executed.ins.a) % WIDTH
OriginY == V(Executed.ins.b) % HEIGHT

\* C11: Draw wraps the origin and clips the sprite: the origin is
\* (Vx mod 64, Vy mod 32), only cells with column in x0 .. min(x0 + 7, 63)
\* and row in y0 .. min(y0 + N - 1, 31) change (nothing wraps to column 0 or
\* row 0), and a set top-left sprite bit changes the cell at the origin.
C11_DrawClips ==
  [][SingleTick /\ Executed.ins.op = "Draw" /\ Executed.ret.kind = "Ok" =>
       /\ \A c \in Changed :
            /\ OriginY <= c[1] /\ c[1] <= Min(OriginY + Executed.ins.c - 1, HEIGHT - 1)
            /\ OriginX <= c[2] /\ c[2] <= Min(OriginX + 7, WIDTH - 1)
       /\ Executed.ins.c >= 1 /\ SpriteBit(0, 0) => << OriginY, OriginX >> \in Changed
       /\ emulator'.frame_buf \subseteq (0 .. HEIGHT - 1) \X (0 .. WIDTH - 1)]_vars

\* C11 witness: a sprite of two rows of FF or F0 was drawn with V0 = 254 and
\* V1 = 255: only the two cells of row 31 at columns 62 and 63 are on.
C11_Witness ==
  /\ Len(trace) = 4
  /\ trace[4].ins = Ins("Draw", 0, 1, 2)
  /\ emulator.registers[0] = 254
  /\ emulator.registers[1] = 255
  /\ emulator.frame_buf = {<< 31, 62 >>, << 31, 63 >>}

(***************************************************************************)
(* Drawing twice: programs that draw a background of height m, then the    *)
(* same sprite of height n twice at the same place.                        *)
(***************************************************************************)
EraseHeights == {0, MaxHeight}

EraseData == PROGRAM_START_ADDRESS + 14

ErasePrograms ==
  {Flatten(<< WX(6, 0, cx), WX(6, 1, cy), WA(10, EraseData), W(13, 0, 1, m),
              WA(10, EraseData + d), W(13, 0, 1, n), W(13, 0, 1, n) >>) \o rows :
     cx \in Vals, cy \in {0, 255}, m \in EraseHeights, n \in 0 .. MaxHeight,
     d \in {0, 1}, rows \in SpriteRows \X SpriteRows}

InitErase ==
  \E program \in ErasePrograms : Constructed(DefaultClockSpeed, program, << >>)

SpecErase == InitErase /\ [][Next]_vars

\* The last two ticks were the same Draw, both done, with coordinate
\* registers other than V15.
DrewTwice ==
  /\ Len(trace) >= 2
  /\ trace[Len(trace)].ins.op = "Draw"
  /\ trace[Len(trace) - 1].ins = trace[Len(trace)].ins
  /\ trace[Len(trace) - 1].ret.kind = "Ok"
  /\ trace[Len(trace)].ret.kind = "Ok"
  /\ trace[Len(trace)].ins.a # 15
  /\ trace[Len(trace)].ins.b # 15

\* The visible cells under the set bits of the sprite of the last Draw.
SpriteCells ==
  LET draw == trace[Len(trace)].ins
      x0 == emulator.registers[draw.a] % WIDTH
      y0 == emulator.registers[draw.b] % HEIGHT
  IN  {c \in (y0 .. Min(y0 + draw.c - 1, HEIGHT - 1)) \X (x0 .. Min(x0 + 7, WIDTH - 1)) :
         (ByteAt(emulator.memory, emulator.i + c[1] - y0) \div Pow2(7 - (c[2] - x0))) % 2 = 1}

\* C12 as stated: the second of two equal draws returns the framebuffer to
\* its state before the first and sets V15 to 1, for every sprite and every
\* height.
C12_DrawTwiceAsStated ==
  DrewTwice =>
    /\ emulator.frame_buf = trace[Len(trace) - 1].frame_buf
    /\ emulator.registers[15] = 1

\* C12, amended: the second of two equal draws returns the framebuffer to
\* its state before the first, and sets V15 to 1 when the sprite has a set
\* bit on a visible cell that was off before the first draw, and to 0 when
\* it has none (height 0, rows of zeros, or a sprite drawn wholly over cells
\* that were on: the first draw puts them out, the second lights them).
C12_DrawTwice ==
  DrewTwice =>
    /\ emulator.frame_buf = trace[Len(trace) - 1].frame_buf
    /\ emulator.registers[15] =
         IF SpriteCells \ trace[Len(trace) - 1].frame_buf # {} THEN 1 ELSE 0

\* C12 witness: over a background that is on, a sprite was drawn twice: the
\* first draw changed the framebuffer, the second restored it with flag 1.
C12_Witness ==
  /\ Len(trace) = 7
  /\ DrewTwice
  /\ trace[6].frame_buf # {}
  /\ trace[7].frame_buf # trace[6].frame_buf
  /\ emulator.frame_buf = trace[6].frame_buf
  /\ emulator.registers[15] = 1

(***************************************************************************)
(* Frames: programs that clear the screen, set both timers to k and then   *)
(* hit an undecodable word, wait for a key, loop, clear the screen before  *)
(* an undecodable word, or draw and loop, run at several clock speeds.  SpecFrames is *)
(* the loop of main.rs, which calls run_frame and set_keys_pressed only;   *)
(* SpecTicks also calls tick by itself.                                    *)
(***************************************************************************)
MaxTimer == 3

ClockSpeeds == {20, 60, 120, DefaultClockSpeed}

\* The words of tests::test_invalid, and the 0000 of memory never written.
BadWords ==
  {<< 0, 0 >>, << 0, \hE1 >>, << \h5A, \hA2 >>, << \h81, \hFF >>, << \h94, \h5F >>,
   << \hEA, \hAA >>, << \hF8, \h66 >>}

FrameTails ==
  {<< w >> : w \in BadWords}
    \cup {<< W(15, x, 0, 10), << 0, 0 >> >> : x \in Regs}
    \cup {<< WA(1, PROGRAM_START_ADDRESS + 8) >>, << W(0, 0, 14, 0), << 0, 0 >> >>,
          << W(13, 0, 0, 1), WA(1, PROGRAM_START_ADDRESS + 10) >>}

FramePrograms ==
  {Flatten(<< W(0, 0, 14, 0), WX(6, 0, k), W(15, 0, 1, 5), W(15, 0, 1, 8) >> \o tail) :
     k \in 0 .. MaxTimer, tail \in FrameTails}

InitFrames ==
  \E clock_speed \in ClockSpeeds, program \in FramePrograms :
    Constructed(clock_speed, program, << >>)

NextFrames ==
  \/ RunFrame
  \/ \E keys_pressed \in KeySets : SetKeysPressed(keys_pressed)

SpecFrames == InitFrames /\ [][NextFrames]_vars

SpecTicks == InitFrames /\ [][Next]_vars

\* C13: FX0A is a busy-wait that does not advance: with zero or several
\* keys pressed the tick leaves the program counter at the address of the
\* FX0A, changes no register and leaves memory as it is, so the same
\* instruction runs on the next tick; with exactly one key pressed Vx
\* receives the number (0..15) of that key, no other register changes and
\* the program counter is 2 past the FX0A.
C13_WaitForKey ==
  [][SingleTick /\ Executed.ins.op = "GetKey" =>
       /\ Executed.ret = Ret("Ok", "false")
       /\ IF Cardinality(emulator.keys_pressed) = 1
          THEN /\ \E n \in 0 .. 15 : /\ emulator.keys_pressed = {Keys[n + 1]}
                                     /\ VAfter(Executed.ins.a) = n
               /\ \A r \in 0 .. 15 : r # Executed.ins.a => VAfter(r) = V(r)
               /\ emulator'.program_counter = Executed.pc + 2
          ELSE /\ emulator'.program_counter = Executed.pc
               /\ emulator'.program_counter = emulator.program_counter
               /\ emulator'.registers = emulator.registers
               /\ emulator'.memory = emulator.memory]_vars

\* C13 witness: F10A ran three times at the same address, and the third
\* time took key 1.
C13_Witness ==
  /\ Len(trace) = 7
  /\ \A j \in 5 .. 7 : trace[j].ins = Ins("GetKey", 1, 0, 0) /\ trace[j].pc = trace[5].pc
  /\ emulator.keys_pressed = {"Key1"}
  /\ emulator.registers[1] = 1
  /\ emulator.program_counter = trace[5].pc + 2

\* Of a step of run_frame: the ticks it executed, the timer updates made
\* while they ran, and whether one of them wrote a timer.
TicksExecuted == Len(trace') - Len(trace)
TimerUpdates ==
  IF emulator.timers_update_interval = 0 THEN 0
  ELSE (emulator.inst_count + TicksExecuted) \div emulator.timers_update_interval
TimerWritten ==
  \E j \in Len(trace) + 1 .. Len(trace') :
    trace'[j].ins.op \in {"SetDelayTimer", "SetSoundTimer"}

\* A timer at t after n updates.
Decremented(t, n) == IF t > n THEN t - n ELSE 0

\* C14: every run_frame that returns Ok executes exactly ticks_per_frame
\* ticks, and the timers are updated once per timers_update_interval ticks
\* executed through run_frame, the count of ticks since the last update
\* going back to 0 at each update; at clock speed 400 that is 7 ticks per
\* frame and one update every 7 ticks.  Ticks of a waiting FX0A count.
C14_Cadence ==
  [][RunFrame /\ ret'.kind = "Ok" =>
       /\ TicksExecuted = emulator.ticks_per_frame
       /\ emulator'.inst_count =
            IF emulator.timers_update_interval = 0
            THEN emulator.inst_count + TicksExecuted
            ELSE (emulator.inst_count + TicksExecuted) % emulator.timers_update_interval
       /\ ~TimerWritten =>
            /\ emulator'.delay_timer = Decremented(emulator.delay_timer, TimerUpdates)
            /\ emulator'.sound_timer = Decremented(emulator.sound_timer, TimerUpdates)
       /\ args.clock_speed = 400 =>
            /\ emulator.ticks_per_frame = 7
            /\ emulator.timers_update_interval = 7
            /\ TimerUpdates = 1]_vars

\* C14 witness: at clock speed 400 two frames of 7 ticks have run, the
\* second one waiting for a key all along, and the timers set to 3 in the
\* first frame are at 1.
C14_Witness ==
  /\ args.clock_speed = 400
  /\ Len(trace) = 14
  /\ \A j \in 8 .. 14 : trace[j].ins.op = "GetKey"
  /\ ret = Ret("Ok", "()")
  /\ args.program[4] = 3
  /\ emulator.delay_timer = 1
  /\ emulator.sound_timer = 1
  /\ emulator.inst_count = 0

\* The frame programs set the delay timer in tick 3 and the sound timer in
\* tick 4 to the k of their second word.  Frames completed so far, and the
\* updates made since tick `set` wrote its timer (one update ends each
\* frame).
TimerSetTo == args.program[4]
FramesCompleted ==
  IF emulator.ticks_per_frame = 0 THEN 0
  ELSE IF ret.kind = "Ok" THEN Len(trace) \div emulator.ticks_per_frame
  ELSE (Len(trace) - 1) \div emulator.ticks_per_frame
UpdatesSince(set) ==
  FramesCompleted - ((set - 1) \div emulator.ticks_per_frame)

\* C15: the timers saturate at zero: both are always in 0..255; a timer
\* update takes 1 from each timer that is not 0 and leaves a timer at 0; a
\* timer set to k and not written again is 0 after exactly k updates (k - j
\* after j < k of them) and stays 0.
C15_TimersSaturate ==
  /\ [](/\ emulator.delay_timer \in 0 .. 255
        /\ emulator.sound_timer \in 0 .. 255
        /\ Len(trace) >= 3 /\ (Len(trace) > 3 \/ ret.kind = "Ok") =>
             emulator.delay_timer = Decremented(TimerSetTo, UpdatesSince(3))
        /\ Len(trace) >= 4 /\ (Len(trace) > 4 \/ ret.kind = "Ok") =>
             emulator.sound_timer = Decremented(TimerSetTo, UpdatesSince(4)))
  /\ [][RunFrame /\ ret'.kind = "Ok" /\ ~TimerWritten /\ TimerUpdates = 1 =>
          /\ emulator'.delay_timer =
               IF emulator.delay_timer = 0 THEN 0 ELSE emulator.delay_timer - 1
          /\ emulator'.sound_timer =
               IF emulator.sound_timer = 0 THEN 0 ELSE emulator.sound_timer - 1]_vars

\* C15 witness: at one tick per frame both timers were set to 2, reached 0,
\* and were updated again at 0.
C15_Witness ==
  /\ args.clock_speed = 60
  /\ TimerSetTo = 2
  /\ Len(trace) = 8
  /\ ret.kind = "Ok"
  /\ emulator.delay_timer = 0
  /\ emulator.sound_timer = 0

\* C18: the tone generator is started exactly where the sound timer goes
\* from zero to nonzero and stopped exactly at the timer update where it
\* goes from nonzero to zero, so the tone plays exactly while the sound
\* timer is not zero, and is not left playing once the timer has reached
\* zero.
C18_ToneFollowsSoundTimer ==
  (emulator.beeper = "playing") <=> (emulator.sound_timer > 0)

\* C19: an undecodable instruction is never a no-op: when the two bytes
\* fetched match no known pattern, tick returns the unknown-instruction
\* error, and run_frame returns the same error to its caller.
C19_UnknownInstructionFails ==
  [][RunFrame /\ trace' # trace /\ instruction_bytes' # << >> /\ ~Documented' =>
       /\ trace'[Len(trace')].bytes = instruction_bytes'
       /\ trace'[Len(trace')].ret = Ret("Err", "Instruction")
       /\ ret' = Ret("Err", "Instruction")]_vars

\* C19 witness: run_frame has returned the unknown-instruction error for
\* the word 81FF, its fifth tick at 7 ticks per frame.
C19_Witness ==
  /\ args.clock_speed = 400
  /\ Len(trace) = 5
  /\ trace[5].bytes = << \h81, \hFF >>
  /\ trace[5].ret = Ret("Err", "Instruction")
  /\ ret = Ret("Err", "Instruction")

\* C20: run_frame returns the first error of its ticks and stops there: the
\* failing tick is the last it executes, it is not counted (the count of
\* ticks grows by the ticks before it only, and no timer is updated for
\* it), and the redraw flag keeps the value of the previous frame.
C20_FirstErrorStopsFrame ==
  [][RunFrame /\ ret'.kind = "Err" =>
       /\ TicksExecuted >= 1
       /\ TicksExecuted <= emulator.ticks_per_frame
       /\ \A j \in Len(trace) + 1 .. Len(trace') - 1 : trace'[j].ret.kind = "Ok"
       /\ trace'[Len(trace')].ret = ret'
       /\ emulator'.program_counter = trace'[Len(trace')].pc + 2
       /\ emulator'.inst_count = emulator.inst_count + TicksExecuted - 1
       /\ ~TimerWritten =>
            /\ emulator'.delay_timer = emulator.delay_timer
            /\ emulator'.sound_timer = emulator.sound_timer
       /\ emulator'.redraw = emulator.redraw]_vars

\* C20 witness: at 2 ticks per frame the third frame cleared the screen and
\* then failed: the flag is still the FALSE of the second frame, and one
\* tick of the frame is counted.
C20_Witness ==
  /\ args.clock_speed = 120
  /\ Len(trace) = 6
  /\ trace[5].ins.op = "ClearScreen"
  /\ trace[5].ret = Ret("Ok", "true")
  /\ ret = Ret("Err", "Instruction")
  /\ emulator.redraw = FALSE
  /\ emulator.inst_count = 1

(***************************************************************************)
(* Construction: Emulator::new called with clock speeds from the low end   *)
(* of the u16 range, around the speed where the quotient passes 255, and   *)
(* the highest; and with programs of lengths around the room there is from *)
(* the program origin to the end of memory.                                *)
(***************************************************************************)
MaxClock == 700

\* The lowest clock speed whose rounded quotient by 60 is above 255.
SaturationSpeed == 255 * 60 + 30

ClockSample ==
  (1 .. MaxClock)
    \cup (SaturationSpeed - MaxEdge .. SaturationSpeed + MaxEdge)
    \cup {65535}

LoadLengths ==
  (0 .. 1) \cup (MEMORY_SIZE - PROGRAM_START_ADDRESS - MaxEdge
                   .. MEMORY_SIZE - PROGRAM_START_ADDRESS + MaxEdge)

LoadPrograms ==
  {[k \in 1 .. n |-> (k * m + 1) % 256] : n \in LoadLengths, m \in {1, 255}}

NewInputs ==
  {Args(clock_speed, << >>) : clock_speed \in ClockSample}
    \cup {Args(DefaultClockSpeed, program) : program \in LoadPrograms}

\* The state after Emulator::new returned, Ok or Err.
InitNew ==
  \E a \in NewInputs : \E made \in {new(a.clock_speed, a.program)} :
    /\ args = a
    /\ emulator = made.e
    /\ ret = made.ret
    /\ trace = << >>
    /\ instruction_bytes = << >>
    /\ instruction = NoInstruction

SpecNew == InitNew /\ [][Next]_vars

\* C16: for every clock speed in 1..65535 that the constructor accepts,
\* ticks_per_frame and timers_update_interval are both
\* floor((clock_speed + 30) / 60), the quotient by 60 rounded half away
\* from zero.
C16_ClockRounding ==
  ret.kind = "Ok" /\ args.clock_speed \in 1 .. 65535 =>
    /\ emulator.ticks_per_frame = (args.clock_speed + 30) \div 60
    /\ emulator.timers_update_interval = (args.clock_speed + 30) \div 60

\* The emulator is as Emulator::new returned it.
Fresh ==
  /\ trace = << >>
  /\ emulator = new(args.clock_speed, args.program).e

\* C17: construction fails with MemoryAccess iff the program is longer
\* than 4096 - 512 = 3584 bytes; otherwise the new emulator has the program
\* bytes at 512 .. 512 + len - 1, the 80 font bytes at 80 .. 159, every
\* other byte 0, program counter 512, registers, I and timers 0, an empty
\* stack, a dark display, no key pressed and the redraw flag false.
C17_Construction ==
  trace = << >> =>
    /\ ret = Ret("Err", "MemoryAccess") <=> Len(args.program) > 4096 - 512
    /\ ret.kind \in {"Ok", "Err"}
    /\ Fresh /\ ret.kind = "Ok" =>
         /\ \A a \in 0 .. MEMORY_SIZE - 1 :
              ByteAt(emulator.memory, a) =
                IF 512 <= a /\ a < 512 + Len(args.program) THEN args.program[a - 511]
                ELSE IF 80 <= a /\ a < 160 THEN FONT[a - 79]
                ELSE 0
         /\ emulator.program_counter = 512
         /\ \A r \in 0 .. 15 : emulator.registers[r] = 0
         /\ emulator.i = 0
         /\ emulator.delay_timer = 0
         /\ emulator.sound_timer = 0
         /\ emulator.stack = << >>
         /\ emulator.frame_buf = {}
         /\ emulator.keys_pressed = {}
         /\ emulator.redraw = FALSE

\* C17 witness: a program of exactly 3584 bytes was loaded, its last byte
\* at the last address of memory.
C17_Witness ==
  /\ Fresh
  /\ ret.kind = "Ok"
  /\ Len(args.program) = 3584
  /\ args.program[3584] # 0
  /\ ByteAt(emulator.memory, MEMORY_SIZE - 1) = args.program[3584]

(***************************************************************************)
(* Errors: programs that fail with each of the three errors after a short  *)
(* prefix (nothing, a register load, a call, timers set, a sprite drawn),  *)
(* with an instruction and a loop after the failing instruction.           *)
(***************************************************************************)
FailingWords ==
  {<< << \h81, \hFF >> >>,
   << W(0, 0, 14, 14) >>,
   << WA(10, MEMORY_SIZE - 1), W(15, 1, 5, 5) >>,
   << WA(10, MEMORY_SIZE - 2), W(15, 0, 3, 3) >>}

ErrorPrefixes ==
  {<< >>, << W(0, 0, 14, 0) >>} \cup {<< WX(6, 0, v) >> : v \in Vals}
    \cup {<< WA(2, PROGRAM_START_ADDRESS + 2) >>,
          << WX(6, 0, 3), WX(15, 0, \h15), WX(15, 0, \h18) >>,
          << WA(10, FONT_START_ADDRESS), W(13, 0, 0, 5) >>}

ErrorPrograms ==
  {Flatten(prefix \o failing
             \o << WX(6, 2, 1),
                   WA(1, PROGRAM_START_ADDRESS + 2 * (Len(prefix) + Len(failing))) >>) :
     prefix \in ErrorPrefixes, failing \in FailingWords}

InitErrors ==
  \E clock_speed \in ClockSpeeds, program \in ErrorPrograms :
    Constructed(clock_speed, program, << >>)

SpecErrors == InitErrors /\ [][Next]_vars

\* C21: errors are terminal: once a tick or a frame has returned the
\* unknown-instruction error, MemoryAccess or StackUnderflow, no further
\* instruction is executed, whatever the driver does next: the failing tick
\* is the last of the record of ticks, and no step changes the emulator or
\* the record after it.
C21_ErrorsTerminal ==
  /\ [](/\ \A j \in 1 .. Len(trace) - 1 : trace[j].ret.kind = "Ok"
        /\ ret.kind = "Err" =>
             /\ trace # << >>
             /\ trace[Len(trace)].ret = ret
             /\ ret.val \in {"Instruction", "MemoryAccess", "StackUnderflow"})
  /\ [][ret.kind = "Err" => emulator' = emulator /\ trace' = trace /\ ret' = ret]_vars

\* C21 witness: a frame has returned StackUnderflow with the program
\* counter on the instruction after the failing Return, which decodes.
C21_Witness ==
  /\ ret = Ret("Err", "StackUnderflow")
  /\ trace[Len(trace)].ins.op = "Return"
  /\ Len(trace) = 2
  /\ ByteAt(emulator.memory, emulator.program_counter) = \h62
  /\ emulator.registers[2] = 0

\* The instructions that ask for a redraw.
RedrawOps == {"ClearScreen", "Draw"}

\* C22: after every run_frame that returns Ok, should_redraw() is true iff
\* a tick of that frame executed ClearScreen or Draw: tick returns true for
\* exactly those two instructions, and the flag is that of the latest frame
\* only, false after a frame with neither.
C22_RedrawFlag ==
  [][RunFrame /\ ret'.kind = "Ok" =>
       /\ emulator'.redraw =
            (\E j \in Len(trace) + 1 .. Len(trace') : trace'[j].ins.op \in RedrawOps)
       /\ \A j \in Len(trace) + 1 .. Len(trace') :
            /\ trace'[j].ret.val \in {"true", "false"}
            /\ trace'[j].ret.val = "true" <=> trace'[j].ins.op \in RedrawOps]_vars

\* C22 witness: at one tick per frame the first frame cleared the screen
\* and the second set a register: the flag is false again.
C22_Witness ==
  /\ args.clock_speed = 60
  /\ Len(trace) = 2
  /\ trace[1].ins.op = "ClearScreen"
  /\ trace[1].ret = Ret("Ok", "true")
  /\ ret.kind = "Ok"
  /\ emulator.redraw = FALSE

(***************************************************************************)
(* One instruction of every class but the jumps, calls and returns, after  *)
(* V0 = a and V1 = b and before two more register loads, with the keys     *)
(* changing at any time.                                                   *)
(***************************************************************************)
SkipWords ==
  {WX(n1, 0, nn) : n1 \in {3, 4}, nn \in Vals}
    \cup {W(5, 0, 1, 0), W(9, 0, 1, 0), WX(14, 0, \h9E), WX(14, 0, \hA1)}

PlainWords ==
  {W(0, 0, 14, 0), WX(7, 0, 255), WA(10, \h300), WX(12, 0, 255), W(13, 0, 1, 1)}
    \cup {W(8, 0, 1, k) : k \in AluOps}
    \cup {WX(15, 0, nn) : nn \in {\h07, \h0A, \h15, \h18, \h1E, \h29, \h33, \h55, \h65}}

OpsPrograms ==
  {Flatten(<< WX(6, 0, a), WX(6, 1, b), w, WX(6, 2, 1), WX(6, 3, 1) >>) :
     a \in Vals, b \in Vals, w \in SkipWords \cup PlainWords}

InitOps == \E program \in OpsPrograms :
    Constructed(DefaultClockSpeed, program, << \hAA >>)

SpecOps == InitOps /\ [][Next]_vars

\* C23: the pressed-key set is changed only by set_keys_pressed: a step of
\* set_keys_pressed makes it the supplied set, whatever it held, and changes
\* nothing else of the machine; every step that changes it is such a step,
\* and no tick or frame (timer updates included) changes it.
C23_KeysOnlyReplaced ==
  [][/\ \A keys_pressed \in KeySets :
          SetKeysPressed(keys_pressed) =>
            /\ emulator'.keys_pressed = keys_pressed
            /\ emulator' = [emulator EXCEPT !.keys_pressed = keys_pressed]
     /\ emulator'.keys_pressed # emulator.keys_pressed =>
          /\ emulator' = [emulator EXCEPT !.keys_pressed = emulator'.keys_pressed]
          /\ UNCHANGED << ret, trace >>
     /\ Tick \/ RunFrame => emulator'.keys_pressed = emulator.keys_pressed]_vars

\* C23 witness: key 1 was pressed alone, FX0A read it into V0, and it is
\* still the pressed-key set.
C23_Witness ==
  /\ Len(trace) = 3
  /\ trace[3].ins.op = "GetKey"
  /\ trace[3].registers[0] = 255
  /\ emulator.registers[0] = 1
  /\ emulator.keys_pressed = {"Key1"}
  /\ ret.kind = "Ok"

ControlOps == {"Jump", "JumpWithOffset", "Call", "Return"}
RegisterSkipOps ==
  {"SkipIfRegisterEqualsConstant", "SkipIfRegisterNotEqualsConstant",
   "SkipIfRegisterEqualsRegister", "SkipIfRegisterNotEqualsRegister"}
KeySkipOps == {"SkipIfKeyIsPressed", "SkipIfKeyIsNotPressed"}

\* Whether the key whose identifier is n is pressed.
KeyDown(n) == \E key \in emulator.keys_pressed : to_num(key) = n

\* The condition of the skip instruction ins, on the state before its tick.
SkipCondition(ins) ==
  CASE ins.op = "SkipIfRegisterEqualsConstant" -> V(ins.a) = ins.b
    [] ins.op = "SkipIfRegisterNotEqualsConstant" -> V(ins.a) # ins.b
    [] ins.op = "SkipIfRegisterEqualsRegister" -> V(ins.a) = V(ins.b)
    [] ins.op = "SkipIfRegisterNotEqualsRegister" -> V(ins.a) # V(ins.b)
    [] ins.op = "SkipIfKeyIsPressed" -> KeyDown(V(ins.a))
    [] ins.op = "SkipIfKeyIsNotPressed" -> ~KeyDown(V(ins.a))

\* C25: a tick that returns Ok and executed an instruction other than Jump,
\* JumpWithOffset, Call, Return, a skip or GetKey leaves the program counter
\* 2 above its value before the tick; a skip (3XNN, 4XNN, 5XY0, 9XY0, and
\* EX9E and EXA1 with Vx a key identifier) returns Ok, leaves the program
\* counter 4 above when its condition holds and 2 above otherwise, and
\* changes nothing else of the machine.
C25_ProgramCounterUpdate ==
  [][Tick =>
       LET ins == Executed.ins
           pc == emulator.program_counter
       IN  /\ (/\ ret'.kind = "Ok"
                /\ ins.op \notin ControlOps \cup RegisterSkipOps \cup KeySkipOps
                                \cup {"GetKey"}) =>
                emulator'.program_counter = pc + 2
           /\ ins.op \in RegisterSkipOps \/ (ins.op \in KeySkipOps /\ V(ins.a) <= 15) =>
                ret'.kind = "Ok"
           /\ ret'.kind = "Ok" /\ ins.op \in RegisterSkipOps \cup KeySkipOps =>
                emulator' = [emulator EXCEPT !.program_counter =
                                               IF SkipCondition(ins) THEN pc + 4 ELSE pc + 2]]_vars

\* C25 witness: 30FF met with V0 = 255 skipped the load of V2.
C25_Witness ==
  /\ Len(trace) = 4
  /\ trace[3].bytes = << \h30, 255 >>
  /\ trace[3].registers[0] = 255
  /\ trace[4].pc = trace[3].pc + 4
  /\ emulator.registers[2] = 0
  /\ emulator.registers[3] = 1

\* C30: EX9E and EXA1 return Ok or one of the three errors for every value
\* of Vx in 0 .. 255; EX9E skips the next instruction iff the key whose
\* identifier is Vx is pressed, EXA1 iff it is not, so that with Vx above
\* 15, which names no key, EX9E does not skip and EXA1 skips.
C30_KeySkipsNeverCrash ==
  [][Tick /\ Executed.ins.op \in KeySkipOps =>
       /\ ret'.kind \in {"Ok", "Err"}
       /\ ret'.kind = "Err" => ret'.val \in {"Instruction", "MemoryAccess", "StackUnderflow"}
       /\ emulator'.program_counter =
            IF SkipCondition(Executed.ins)
            THEN emulator.program_counter + 4
            ELSE emulator.program_counter + 2]_vars

\* The NNN of the instruction word bytes.
WordAddress(bytes) == (bytes[1] % 16) * 256 + bytes[2]

\* C26: BNNN sets the program counter to NNN + V0, a plain sum in
\* 0 .. 0x10FE that is not reduced modulo 4096 and does not use Vx, and 1NNN
\* sets it to NNN; both return Ok, push nothing and change nothing else.
C26_Jumps ==
  [][SingleTick /\ Executed.ins.op \in {"Jump", "JumpWithOffset"} =>
       LET NNN == WordAddress(Executed.bytes)
       IN  /\ Executed.ret = Ret("Ok", "false")
           /\ ret' = Executed.ret
           /\ emulator'.program_counter \in 0 .. \h10FE
           /\ emulator' =
                [emulator EXCEPT !.program_counter =
                                   IF Executed.ins.op = "Jump" THEN NNN ELSE NNN + V(0)]]_vars

\* C26 witness: BFFF with V0 = 255 left the program counter at 0x10FE.
C26_Witness ==
  /\ Len(trace) = 2
  /\ trace[2].bytes = << \hBF, \hFF >>
  /\ trace[2].registers[0] = 255
  /\ trace[2].registers[15] = 0
  /\ emulator.program_counter = \h10FE
  /\ emulator.stack = << >>

(***************************************************************************)
(* BCD of every byte: Vx = v, I = nnn, FX33, with I in the middle of       *)
(* memory, at the last three bytes and one byte further.                   *)
(***************************************************************************)
BcdAddrs == {\h300, MEMORY_SIZE - 3, MEMORY_SIZE - 2}

BcdPrograms ==
  {Flatten(<< WX(6, x, v), WA(10, nnn), WX(15, x, \h33) >>) :
     x \in Regs, v \in 0 .. 255, nnn \in BcdAddrs}

InitBcd == \E program \in BcdPrograms :
    Constructed(DefaultClockSpeed, program, << >>)

SpecBcd == InitBcd /\ [][Next]_vars

\* C27: FX33 with I + 3 <= 4096 returns Ok and writes the decimal digits of
\* Vx most significant first: memory[I] = Vx div 100, memory[I + 1] =
\* (Vx mod 100) div 10, memory[I + 2] = Vx mod 10, each in 0 .. 9 and
\* 100 * memory[I] + 10 * memory[I + 1] + memory[I + 2] = Vx, for every Vx
\* in 0 .. 255; I, the registers and every other byte of memory are
\* unchanged.
C27_BCD ==
  [][SingleTick /\ Executed.ins.op = "BCD" /\ emulator.i + 3 <= MEMORY_SIZE =>
       LET I == emulator.i
           Vx == V(Executed.ins.a)
           M(a) == ByteAt(emulator'.memory, a)
       IN  /\ Executed.ret = Ret("Ok", "false")
           /\ M(I) = Vx \div 100
           /\ M(I + 1) = (Vx % 100) \div 10
           /\ M(I + 2) = Vx % 10
           /\ \A a \in I .. I + 2 : M(a) \in 0 .. 9
           /\ 100 * M(I) + 10 * M(I + 1) + M(I + 2) = Vx
           /\ \A a \in Touched \ (I .. I + 2) : M(a) = ByteAt(emulator.memory, a)
           /\ emulator'.i = I
           /\ emulator'.registers = emulator.registers
           /\ emulator' = [emulator EXCEPT !.program_counter = emulator.program_counter + 2,
                                           !.memory = emulator'.memory]]_vars

\* C27 witness: V15 = 254 was written as 2, 5, 4 to the last three bytes of
\* memory.
C27_Witness ==
  /\ Len(trace) = 3
  /\ trace[3].ins.op = "BCD"
  /\ trace[3].registers[15] = 254
  /\ emulator.i = MEMORY_SIZE - 3
  /\ ByteAt(emulator.memory, MEMORY_SIZE - 3) = 2
  /\ ByteAt(emulator.memory, MEMORY_SIZE - 2) = 5
  /\ ByteAt(emulator.memory, MEMORY_SIZE - 1) = 4
  /\ ret = Ret("Ok", "false")

(***************************************************************************)
(* A dump and a load: V0 = a, V1 = b, V15 = 0xF0, I = nnn, FX55, then V0,  *)
(* V1, V15 and V2 overwritten, then FX65, with I in the middle of memory   *)
(* and where I + X is the last byte of memory.                             *)
(***************************************************************************)
RoundTripPrograms ==
  {Flatten(<< WX(6, 0, a), WX(6, 1, b), WX(6, 15, \hF0),
              WA(10, IF last THEN MEMORY_SIZE - x - 1 ELSE \h300), WX(15, x, \h55),
              WX(6, 0, \h55), WX(6, 1, \hAA), WX(6, 15, \h33), WX(6, 2, \h77),
              WX(15, x, \h65) >>) :
     a \in Vals, b \in Vals, x \in Regs, last \in BOOLEAN}

InitRoundTrip == \E program \in RoundTripPrograms :
    Constructed(DefaultClockSpeed, program, << >>)

SpecRoundTrip == InitRoundTrip /\ [][Next]_vars

\* The registers and I after tick j of the record.
RegistersAfter(j) == IF j < Len(trace) THEN trace[j + 1].registers ELSE emulator.registers
IAfter(j) == IF j < Len(trace) THEN trace[j + 1].i ELSE emulator.i

\* The instructions that write memory.
MemoryWriteOps == {"StoreRegistersToMemory", "BCD"}

\* C28: for FX55 at tick j and FX65 at a later tick k with the same X and
\* the same I, I + X + 1 <= 4096, and no instruction writing memory between
\* them: both return Ok, after the load V0 .. VX have the values they had
\* before the store and VX+1 .. V15 the values they had before the load,
\* and I is what it was before each of the two.
C28_RoundTrip ==
  \A j \in 1 .. Len(trace), k \in 1 .. Len(trace) :
    (/\ j < k
     /\ trace[j].ins.op = "StoreRegistersToMemory"
     /\ trace[k].ins.op = "LoadRegistersFromMemory"
     /\ trace[j].ins.a = trace[k].ins.a
     /\ trace[j].i = trace[k].i
     /\ trace[j].i + trace[j].ins.a + 1 <= MEMORY_SIZE
     /\ \A m \in j + 1 .. k - 1 : trace[m].ins.op \notin MemoryWriteOps) =>
      /\ trace[j].ret = Ret("Ok", "false")
      /\ trace[k].ret = Ret("Ok", "false")
      /\ \A r \in 0 .. trace[j].ins.a : RegistersAfter(k)[r] = trace[j].registers[r]
      /\ \A r \in trace[j].ins.a + 1 .. 15 : RegistersAfter(k)[r] = trace[k].registers[r]
      /\ IAfter(j) = trace[j].i
      /\ IAfter(k) = trace[k].i

\* C28 witness: F155 at I = 4094 stored V0 = 254 and V1 = 255 in the last
\* two bytes of memory; after all four registers were overwritten F165
\* brought back V0 and V1 and left V2 and V15.
C28_Witness ==
  /\ Len(trace) = 10
  /\ trace[5].bytes = << \hF1, \h55 >>
  /\ trace[5].i = MEMORY_SIZE - 2
  /\ trace[10].bytes = << \hF1, \h65 >>
  /\ trace[10].registers[0] = \h55
  /\ trace[10].registers[1] = \hAA
  /\ emulator.registers[0] = 254
  /\ emulator.registers[1] = 255
  /\ emulator.registers[2] = \h77
  /\ emulator.registers[15] = \h33
  /\ emulator.i = MEMORY_SIZE - 2

(***************************************************************************)
(* A frame loop that is never left: programs that set both timers to k and *)
(* then jump to themselves for ever or meet an undecodable word, at clock  *)
(* speeds from 1 to 65535.  The record kept is that of the latest frame    *)
(* and of the ticks made since.  Frames of more than MaxFrameTicks ticks   *)
(* are not run.                                                            *)
(***************************************************************************)
MaxFrameTicks == 20

Frame ==
  /\ Running
  /\ emulator.ticks_per_frame <= MaxFrameTicks
  /\ \E f \in {run_frame(emulator)} :
         /\ f.ret.kind # "Exhausted"
         /\ emulator' = f.e
         /\ ret' = f.ret
         /\ trace' = f.log
         /\ instruction_bytes' =
              IF f.log = << >> THEN instruction_bytes ELSE f.log[Len(f.log)].bytes
         /\ instruction' =
              IF f.log = << >> THEN instruction ELSE f.log[Len(f.log)].ins
         /\ UNCHANGED args

CadenceSpeeds ==
  ClockSpeeds \cup {1, 29, 30, 89, 90, 60 * MaxFrameTicks}
    \cup (SaturationSpeed - 1 .. SaturationSpeed) \cup {65535}

CadencePrograms ==
  {Flatten(<< WX(6, 0, k), WX(15, 0, \h15), WX(15, 0, \h18), tail >>) :
     k \in 0 .. MaxTimer, tail \in {WA(1, PROGRAM_START_ADDRESS + 6), << 0, 0 >>}}

InitCadence == \E clock_speed \in CadenceSpeeds, program \in CadencePrograms :
    Constructed(clock_speed, program, << >>)

NextCadence ==
  \/ Tick
  \/ Frame
  \/ \E keys_pressed \in KeySets : SetKeysPressed(keys_pressed)

SpecCadence == InitCadence /\ [][NextCadence]_vars

\* The frame loop of main.rs calls run_frame again and again: the clock
\* speeds whose frames are run, with run_frame weakly fair.
LiveSpeeds == {s \in CadenceSpeeds : round_as_u8(s, FPS) <= MaxFrameTicks}

InitLive == \E clock_speed \in LiveSpeeds, program \in CadencePrograms :
    Constructed(clock_speed, program, << >>)

NextLive == Tick \/ Frame

SpecLive == InitLive /\ [][NextLive]_vars /\ WF_vars(Frame)

\* C29: ticks_per_frame equals timers_update_interval at every clock speed;
\* the count of ticks since the last timer update never exceeds the interval
\* (and never overflows), and is 0 whenever the last call returned Ok; a
\* frame of one tick or more that returns Ok updates the timers exactly
\* once, on its last tick: the count runs 0, 1, ... before its ticks and is
\* 0 after it, no timer changes between two ticks unless the program wrote
\* it, and after the frame each timer is one below what it was before the
\* last tick (0 if it was 0) unless the last tick wrote it.
C29_CadencesAgree ==
  /\ [](/\ emulator.ticks_per_frame = emulator.timers_update_interval
        /\ emulator.inst_count <= emulator.timers_update_interval
        /\ emulator.inst_count \in 0 .. 255
        /\ ret.kind # "Panic"
        /\ ret.kind = "Ok" => emulator.inst_count = 0)
  /\ [][Frame /\ ret'.kind = "Ok" /\ emulator.ticks_per_frame >= 1 =>
          LET n == Len(trace')
          IN  /\ n = emulator.ticks_per_frame
              /\ \A j \in 1 .. n : trace'[j].inst_count = j - 1
              /\ emulator'.inst_count = 0
              /\ \A j \in 2 .. n :
                   /\ trace'[j - 1].ins.op # "SetDelayTimer" =>
                        trace'[j].delay_timer = trace'[j - 1].delay_timer
                   /\ trace'[j - 1].ins.op # "SetSoundTimer" =>
                        trace'[j].sound_timer = trace'[j - 1].sound_timer
              /\ trace'[n].ins.op # "SetDelayTimer" =>
                   emulator'.delay_timer = Decremented(trace'[n].delay_timer, 1)
              /\ trace'[n].ins.op # "SetSoundTimer" =>
                   emulator'.sound_timer = Decremented(trace'[n].sound_timer, 1)]_vars

\* C29 witness: at MaxFrameTicks ticks per frame a second frame has ended,
\* the count before its last tick was one below the interval, and the
\* timers set to 3 in the first frame are at 1.
C29_Witness ==
  /\ args.clock_speed = 60 * MaxFrameTicks
  /\ emulator.timers_update_interval = MaxFrameTicks
  /\ Len(trace) = MaxFrameTicks
  /\ trace[1].ins.op = "Jump"
  /\ trace[MaxFrameTicks].inst_count = MaxFrameTicks - 1
  /\ trace[MaxFrameTicks].delay_timer = 2
  /\ emulator.inst_count = 0
  /\ emulator.delay_timer = 1
  /\ emulator.sound_timer = 1
  /\ ret = Ret("Ok", "()")

\* C24: at every positive clock speed, when frames keep being run without
\* error and the program does not write the timers again, a delay timer
\* that is not 0 reaches 0, a sound timer that is not 0 reaches 0, and a
\* tone that is playing is stopped.
C24_TimerLiveness ==
  /\ (emulator.delay_timer > 0) ~> (emulator.delay_timer = 0 \/ ret.kind # "Ok")
  /\ (emulator.sound_timer > 0) ~> (emulator.sound_timer = 0 \/ ret.kind # "Ok")
  /\ (emulator.beeper = "playing") ~> (emulator.beeper = "paused" \/ ret.kind # "Ok")

\* C31: whenever a tick returns an error (the unknown-instruction error,
\* StackUnderflow of Return, MemoryAccess of FX55 and FX33), the program
\* counter is 2 above the address of the failing instruction and the
\* registers, I, memory, the call stack, the timers, the framebuffer, the
\* pressed-key set and all the rest of the machine are as before the tick.
C31_StateAfterError ==
  [][SingleTick /\ Executed.ret.kind = "Err" =>
       /\ ret' = Executed.ret
       /\ Executed.pc = emulator.program_counter
       /\ emulator'.program_counter = Executed.pc + 2
       /\ emulator'.registers = emulator.registers
       /\ emulator'.i = emulator.i
       /\ \A a \in Touched : ByteAt(emulator'.memory, a) = ByteAt(emulator.memory, a)
       /\ emulator'.stack = emulator.stack
       /\ emulator'.delay_timer = emulator.delay_timer
       /\ emulator'.sound_timer = emulator.sound_timer
       /\ emulator'.frame_buf = emulator.frame_buf
       /\ emulator'.keys_pressed = emulator.keys_pressed
       /\ emulator' = [emulator EXCEPT !.program_counter = emulator.program_counter + 2]
       /\ Executed.ins.op \in {"Err", "Return", "StoreRegistersToMemory", "BCD"}]_vars

\* C31 witness: F155 at I = 4095 failed with V0 = 255 and a key pressed:
\* the last byte of memory is still 0 and the program counter is past F155.
C31_Witness ==
  /\ ret = Ret("Err", "MemoryAccess")
  /\ Len(trace) = 3
  /\ trace[3].bytes = << \hF1, \h55 >>
  /\ emulator.registers[0] = 255
  /\ emulator.i = MEMORY_SIZE - 1
  /\ ByteAt(emulator.memory, MEMORY_SIZE - 1) = 0
  /\ emulator.program_counter = trace[3].pc + 2
  /\ emulator.keys_pressed = {"Key0"}

(***************************************************************************)
(* The flag register: V15 = 0x5A, V0 = a, V1 = 200 and I in the middle or  *)
(* at the last byte of memory, then one instruction of every class, with   *)
(* every sample register as X and as Y.                                    *)
(***************************************************************************)
FlagWords ==
  {W(8, x, y, k) : x \in Regs, y \in Regs, k \in AluOps}
    \cup {WX(n1, x, 255) : n1 \in {3, 4, 6, 7, 12}, x \in Regs}
    \cup {W(n1, x, y, 0) : n1 \in {5, 9}, x \in Regs, y \in Regs}
    \cup {W(13, x, y, 1) : x \in Regs, y \in Regs}
    \cup {WX(14, x, nn) : x \in Regs, nn \in {\h9E, \hA1}}
    \cup {WX(15, x, nn) : x \in Regs,
                          nn \in {\h07, \h0A, \h15, \h18, \h1E, \h29, \h33, \h55, \h65}}
    \cup {W(0, 0, 14, 0), W(0, 0, 14, 14), << \h81, \hFF >>}
    \cup {WA(n1, PROGRAM_START_ADDRESS + 10) : n1 \in {1, 2, 10, 11}}

FlagPrograms ==
  {Flatten(<< WX(6, 15, \h5A), WX(6, 0, a), WX(6, 1, 200), WA(10, nnn), w >>) :
     a \in Vals, nnn \in {\h300, MEMORY_SIZE - 1}, w \in FlagWords}

InitFlag == \E program \in FlagPrograms :
    Constructed(DefaultClockSpeed, program, << \hAA >>)

SpecFlag == InitFlag /\ [][Next]_vars

\* The instructions that write V15 as an implicit output.
FlagOps ==
  {"AddRegisterToRegister", "SubstractXMinusY", "SubstractYMinusX",
   "ShiftRight", "ShiftLeft", "Draw"}

\* The registers an instruction names as its destination.
Destination(ins) ==
  CASE ins.op \in {"SetRegisterToValue", "SetRegisterToValueOfRegister", "BinaryOR",
                   "BinaryAND", "BinaryXOR", "AddValueToRegister", "GetKey",
                   "GetDelayTimerValue", "Random"} -> {ins.a}
    [] ins.op = "LoadRegistersFromMemory" -> 0 .. ins.a
    [] OTHER -> {}

\* C32: V15 is written as an implicit output only by 8XY4, 8XY5, 8XY6,
\* 8XY7, 8XYE and DXYN: a tick of any other instruction (7XNN that
\* overflows, 8XY1, 8XY2, 8XY3 and FX1E included) leaves V15 as it was
\* unless the instruction names register 15 as its destination.
C32_FlagWriteSet ==
  [][SingleTick /\ Executed.ins.op \notin FlagOps /\ 15 \notin Destination(Executed.ins) =>
       VAfter(15) = V(15)]_vars

\* C32 witness: 70FF with V0 = 255 wrapped V0 round to 254 and left
\* V15 = 0x5A.
C32_Witness ==
  /\ Len(trace) = 5
  /\ trace[5].bytes = << \h70, \hFF >>
  /\ trace[5].registers[0] = 255
  /\ trace[5].registers[15] = \h5A
  /\ emulator.registers[0] = 254
  /\ emulator.registers[15] = \h5A
  /\ ret = Ret("Ok", "false")

=============================================================================
